---- MODULE Spec2Model ----
(***************************************************************************)
(* Message routing and session-state core of the chatbot server            *)
(* (src/chatpy/app.py): validation, slash-command routing, regex intent    *)
(* classification, LLM fallback and the capped per-session history.        *)
(*                                                                         *)
(* Text is modelled by TLA+ strings, one character per code point.  In the *)
(* reply literals a code point outside ASCII is written "#" and the        *)
(* backquote, which a TLA+ string cannot hold, is written "^".             *)
(* Wall-clock values come from the set Clock.                              *)
(***************************************************************************)
EXTENDS Integers, Sequences, FiniteSets, TLC

(***************************************************************************)
(* Strings: the str methods the program uses.                              *)
(***************************************************************************)
CharAt(s, i) == SubSeq(s, i, i)

UpperLetters == "ABCDEFGHIJKLMNOPQRSTUVWXYZ"

LowerLetters == "abcdefghijklmnopqrstuvwxyz"

Digits == "0123456789"

\* str.isspace for one character (ASCII whitespace)
IsSpace(c) == c \in {" ", "\t", "\n", "\r", "\f"}

\* the class \w of the re module (ASCII part)
IsWordChar(c) ==
  \/ \E i \in 1..26 : c = CharAt(UpperLetters, i) \/ c = CharAt(LowerLetters, i)
  \/ \E i \in 1..10 : c = CharAt(Digits, i)
  \/ c = "_"

LowerChar(c) ==
  IF \E i \in 1..26 : c = CharAt(UpperLetters, i)
  THEN CharAt(LowerLetters, CHOOSE i \in 1..26 : c = CharAt(UpperLetters, i))
  ELSE c

RECURSIVE Lower(_)
\* str.lower, by halves so that long texts do not nest deeply
Lower(s) ==
  IF Len(s) = 0 THEN ""
  ELSE IF Len(s) = 1 THEN LowerChar(s)
  ELSE LET h == Len(s) \div 2
       IN Lower(SubSeq(s, 1, h)) \o Lower(SubSeq(s, h + 1, Len(s)))

\* str.strip: drop leading and trailing whitespace
Strip(s) ==
  LET n == Len(s)
  IN IF \A i \in 1..n : IsSpace(CharAt(s, i)) THEN ""
     ELSE LET lo == CHOOSE i \in 1..n :
                      ~IsSpace(CharAt(s, i)) /\ \A j \in 1..(i - 1) : IsSpace(CharAt(s, j))
              hi == CHOOSE i \in 1..n :
                      ~IsSpace(CharAt(s, i)) /\ \A j \in (i + 1)..n : IsSpace(CharAt(s, j))
          IN SubSeq(s, lo, hi)

\* str.count for a one-character needle
Count(s, c) == Cardinality({i \in 1..Len(s) : CharAt(s, i) = c})

\* str.startswith
StartsWith(s, p) == Len(s) >= Len(p) /\ SubSeq(s, 1, Len(p)) = p

\* the substring test  p in s
Contains(s, p) ==
  \E i \in 1..(Len(s) - Len(p) + 1) : SubSeq(s, i, i + Len(p) - 1) = p

\* str.split(maxsplit=1) on a stripped, non-empty text: the first token and
\* the remainder after the run of whitespace that follows it
SplitFirst(s) ==
  LET sp == {i \in 1..Len(s) : IsSpace(CharAt(s, i))}
  IN IF sp = {} THEN <<s>>
     ELSE LET e == CHOOSE i \in sp : \A j \in sp : i <= j
              rest == {i \in (e + 1)..Len(s) : ~IsSpace(CharAt(s, i))}
              b == CHOOSE i \in rest : \A j \in rest : i <= j
          IN <<SubSeq(s, 1, e - 1), SubSeq(s, b, Len(s))>>

RECURSIVE Repeat(_, _)
\* s * n
Repeat(s, n) ==
  IF n = 0 THEN ""
  ELSE IF n % 2 = 0 THEN LET h == Repeat(s, n \div 2) IN h \o h
  ELSE s \o Repeat(s, n - 1)

\* seq[-n:] for n > 0 ; seq[-0:] is seq[0:], the whole sequence
SliceLast(seq, n) ==
  IF n = 0 \/ n >= Len(seq) THEN seq
  ELSE SubSeq(seq, Len(seq) - n + 1, Len(seq))

(***************************************************************************)
(* Regular expressions: the constructs the INTENTS patterns use, and        *)
(* re.search.  MatchEnds(r, s, i) is the set of positions at which a match  *)
(* of r that starts at position i of s can end (positions run 0..Len(s),    *)
(* position i lies before character i+1).                                   *)
(***************************************************************************)
Lit(w) == [t |-> "lit", w |-> w]

Cat(rs) == [t |-> "cat", rs |-> rs]

Alt(rs) == [t |-> "alt", rs |-> rs]

Opt(r) == [t |-> "opt", r |-> r]

\* \s+
WS1 == [t |-> "ws", min |-> 1]

\* \s*
WS0 == [t |-> "ws", min |-> 0]

\* \b
WB == [t |-> "wb"]

\* w1\s+w2\s+...\s+wn
Words(ws) ==
  Cat([k \in 1..(2 * Len(ws) - 1) |->
         IF k % 2 = 1 THEN Lit(ws[(k + 1) \div 2]) ELSE WS1])

\* \b between positions i and i+1 of s
AtWordBoundary(s, i) ==
  LET before == i >= 1 /\ IsWordChar(CharAt(s, i))
      after == i < Len(s) /\ IsWordChar(CharAt(s, i + 1))
  IN before # after

RECURSIVE MatchEnds(_, _, _)
RECURSIVE MatchCat(_, _, _, _)
MatchEnds(r, s, i) ==
  CASE r.t = "lit" ->
         IF i + Len(r.w) <= Len(s) /\ SubSeq(s, i + 1, i + Len(r.w)) = r.w
         THEN {i + Len(r.w)} ELSE {}
    [] r.t = "cat" -> MatchCat(r.rs, 1, s, {i})
    [] r.t = "alt" -> UNION {MatchEnds(r.rs[k], s, i) : k \in 1..Len(r.rs)}
    [] r.t = "opt" -> {i} \cup MatchEnds(r.r, s, i)
    [] r.t = "ws" ->
         {j \in (i + r.min)..Len(s) : \A k \in (i + 1)..j : IsSpace(CharAt(s, k))}
    [] r.t = "wb" -> IF AtWordBoundary(s, i) THEN {i} ELSE {}

MatchCat(rs, k, s, starts) ==
  IF k > Len(rs) \/ starts = {} THEN starts
  ELSE MatchCat(rs, k + 1, s, UNION {MatchEnds(rs[k], s, i) : i \in starts})

\* re.search(pattern, s) is not None
Search(r, s) == \E i \in 0..Len(s) : MatchEnds(r, s, i) # {}

(***************************************************************************)
(* Configuration constants.                                                *)
(***************************************************************************)
MAX_HISTORY_LENGTH == 100

CONTEXT_WINDOW == 8

MAX_MESSAGE_LENGTH == 2000

\* the literal 0.8 of get_response, in hundredths like the rule confidences
HIGH_CONFIDENCE_THRESHOLD == 80

(***************************************************************************)
(* The clock: the readings datetime.now() can give while the model runs,   *)
(* each with the renderings the program asks for (%I:%M:%S %p, %I:%M %p,   *)
(* %A, %B %d, %Y and isoformat).                                           *)
(***************************************************************************)
Clock == {
  [hms |-> "09:41:07 AM", hm |-> "09:41 AM",
   date |-> "Saturday, October 31, 2026", iso |-> "2026-10-31T09:41:07.250000",
   ts |-> "2026-10-31 09:41:07", stamp |-> "20261031_094107"] }

(***************************************************************************)
(* Intent rules.  A confidence is written in hundredths (0.9 is 90).  A    *)
(* response is a literal or a function evaluated when it is selected.      *)
(***************************************************************************)
Literal(text) == [kind |-> "literal", text |-> text]

Computed(fn) == [kind |-> "computed", fn |-> fn]

INTENTS == <<
  [name |-> "greeting",
   patterns |-> <<
     Cat(<<WB, Alt(<<Lit("hello"), Lit("hi"), Lit("hey"), Lit("greetings"),
                    Cat(<<Lit("good"), WS1,
                          Alt(<<Lit("morning"), Lit("afternoon"), Lit("evening")>>)>>),
                    Lit("howdy"), Lit("sup")>>), WB>>) >>,
   responses |-> <<
     Literal("Hello! I'm here to help. What can I do for you today? #"),
     Literal("Hi there! How can I assist you? #"),
     Literal("Hey! Welcome! What would you like to know?"),
     Literal("Greetings! How may I help you today?") >>,
   confidence |-> 90],
  [name |-> "wellbeing",
   patterns |-> <<
     Words(<<"how", "are", "you">>),
     Cat(<<Lit("how"), Opt(Lit("'")), Lit("s"), WS1, Lit("it"), WS1, Lit("going")>>),
     Cat(<<Lit("what"), Opt(Lit("'")), Lit("s"), WS1, Lit("up")>>),
     Words(<<"how", "do", "you", "do">>) >>,
   responses |-> <<
     Literal("I'm doing great, thanks for asking! How can I help you today? #"),
     Literal("All systems running smoothly! How about you?"),
     Literal("I'm functioning perfectly! What can I do for you?"),
     Literal("Doing wonderful! How are you doing?") >>,
   confidence |-> 85],
  [name |-> "capabilities",
   patterns |-> <<
     Words(<<"what", "can", "you", "do">>),
     Words(<<"your", "capabilities">>),
     Words(<<"what", "are", "you", "capable", "of">>),
     Words(<<"what", "do", "you", "do">>) >>,
   responses |-> <<
     Literal("I can chat with you, answer questions, help with tasks, check time/date, tell jokes, and more! Just ask away! #"),
     Literal("I'm here to assist with conversations, provide information, and help you with various tasks. Type /help for commands!") >>,
   confidence |-> 90],
  [name |-> "help",
   patterns |-> <<
     Cat(<<WB, Lit("help"), WB>>),
     Cat(<<WB, Lit("assist"), Opt(Lit("ance")), WB>>),
     Cat(<<WB, Lit("support"), WB>>),
     Words(<<"need", "help">>) >>,
   responses |-> <<
     Literal("I'm here to help! You can ask me questions, use commands (type /help), or just chat naturally! #") >>,
   confidence |-> 80],
  [name |-> "time",
   patterns |-> <<
     Cat(<<WB, Opt(Cat(<<Lit("what"), WS1>>)), Lit("time"),
           Opt(Cat(<<WS1, Lit("is"), WS1, Lit("it")>>)), WB>>),
     Words(<<"current", "time">>),
     Lit("o'clock"),
     Words(<<"tell", "me", "the", "time">>) >>,
   responses |-> << Computed("time") >>,
   confidence |-> 95],
  [name |-> "date",
   patterns |-> <<
     Cat(<<WB, Opt(Cat(<<Lit("what"), WS1>>)), Lit("date"),
           Opt(Cat(<<WS1, Lit("is"), WS1, Lit("it")>>)), WB>>),
     Words(<<"what", "day", "is", "it">>),
     Cat(<<Lit("today"), Opt(Lit("'")), Lit("s"), WS1, Lit("date")>>),
     Words(<<"current", "date">>) >>,
   responses |-> << Computed("date") >>,
   confidence |-> 95],
  [name |-> "thanks",
   patterns |-> <<
     Cat(<<WB, Alt(<<Cat(<<Lit("thank"), WS0, Lit("you")>>), Lit("thanks"),
                    Lit("thx"), Words(<<"appreciate", "it">>), Lit("grateful")>>), WB>>) >>,
   responses |-> <<
     Literal("You're welcome! #"),
     Literal("Happy to help! #"),
     Literal("Anytime! Glad I could assist!"),
     Literal("My pleasure! Let me know if you need anything else!") >>,
   confidence |-> 90],
  [name |-> "goodbye",
   patterns |-> <<
     Cat(<<WB, Alt(<<Lit("bye"), Lit("goodbye"), Words(<<"see", "you">>),
                    Lit("farewell"), Lit("later"), Lit("cya"),
                    Words(<<"take", "care">>)>>), WB>>) >>,
   responses |-> <<
     Literal("Goodbye! Have a wonderful day! #"),
     Literal("Take care! Come back anytime! #"),
     Literal("See you later! It was nice chatting with you!"),
     Literal("Farewell! Feel free to return whenever you need help!") >>,
   confidence |-> 90],
  [name |-> "name",
   patterns |-> <<
     Cat(<<Lit("what"), Opt(Lit("'")), Lit("s"), WS1, Lit("your"), WS1, Lit("name")>>),
     Words(<<"who", "are", "you">>),
     Words(<<"introduce", "yourself">>) >>,
   responses |-> <<
     Literal("I'm ChatBot, your friendly AI assistant! #"),
     Literal("You can call me ChatBot - I'm here to help you! #") >>,
   confidence |-> 90],
  [name |-> "joke",
   patterns |-> <<
     Cat(<<WB, Opt(Cat(<<Lit("tell"), WS1, Lit("me"), WS1>>)), Opt(Lit("a")), WS0,
           Lit("joke"), WB>>),
     Words(<<"make", "me", "laugh">>),
     Words(<<"something", "funny">>) >>,
   responses |-> << Computed("joke") >>,
   confidence |-> 85] >>

\* the values random.choice(jokes) can return
get_random_joke == {
  "Why do programmers prefer dark mode? Because light attracts bugs! #",
  "Why did the programmer quit his job? Because he didn't get arrays. #",
  "How many programmers does it take to change a light bulb? None # it's a hardware problem. #",
  "Why do Java developers wear glasses? Because they can't C#! #",
  "What's a programmer's favorite hangout place? Foo Bar! #",
  "Why did the developer go broke? Because he used up all his cache! #",
  "What do you call a programmer from Finland? Nerdic! ##",
  "Why do Python programmers have low self-esteem? They're constantly comparing themselves to others! #",
  "What's the object-oriented way to become wealthy? Inheritance! #",
  "Why did the variable break up with the constant? She needed some space! #",
  "What's a computer's favorite snack? Microchips! #",
  "Why was the JavaScript developer sad? Because he didn't Node how to Express himself! #" }

\* INTENTS[name]
IntentRule(name) ==
  INTENTS[CHOOSE k \in 1..Len(INTENTS) : INTENTS[k].name = name]

\* response() if callable(response) else response: the texts the call can give
Resolve(response, now) ==
  IF response.kind = "literal" THEN {response.text}
  ELSE CASE response.fn = "time" -> {"# The current time is " \o now.hms \o "."}
         [] response.fn = "date" -> {"# Today is " \o now.date \o "."}
         [] response.fn = "joke" -> get_random_joke

RECURSIVE ScanPatterns_last_wins(_, _, _, _)
\* the inner loop with >= in place of >: among equals the last rule wins
ScanPatterns_last_wins(rule, p, message_lower, best) ==
  IF p > Len(rule.patterns) THEN best
  ELSE ScanPatterns_last_wins(rule, p + 1, message_lower,
         IF Search(rule.patterns[p], message_lower) /\ rule.confidence >= best[2]
         THEN <<rule.name, rule.confidence>>
         ELSE best)

RECURSIVE ScanPatterns(_, _, _, _)
\* the inner loop of detect_intent over the patterns of one rule, from
\* pattern p on; best is <<best_intent, best_confidence>>
ScanPatterns(rule, p, message_lower, best) ==
  IF p > Len(rule.patterns) THEN best
  ELSE ScanPatterns(rule, p + 1, message_lower,
         IF Search(rule.patterns[p], message_lower) /\ rule.confidence > best[2]
         THEN <<rule.name, rule.confidence>>
         ELSE best)

RECURSIVE ScanIntents(_, _, _)
\* the outer loop of detect_intent over INTENTS.items(), from rule k on
ScanIntents(k, message_lower, best) ==
  IF k > Len(INTENTS) THEN best
  ELSE ScanIntents(k + 1, message_lower,
         ScanPatterns(INTENTS[k], 1, message_lower, best))

detect_intent(message) ==
  ScanIntents(1, Strip(Lower(message)), <<"unknown", 0>>)

(***************************************************************************)
(* Validation.                                                             *)
(***************************************************************************)
validate_message_limit_excluded(message) ==
  IF message = "" \/ Strip(message) = ""
  THEN [ok |-> FALSE, error |-> "Please type a message!"]
  ELSE IF Len(message) >= MAX_MESSAGE_LENGTH
  THEN [ok |-> FALSE, error |-> "Message too long! Maximum " \o ToString(MAX_MESSAGE_LENGTH) \o " characters."]
  ELSE IF 10 * Count(message, CharAt(message, 1)) > 8 * Len(message)
  THEN [ok |-> FALSE, error |-> "Message appears to be spam."]
  ELSE [ok |-> TRUE, error |-> "None"]

\* count > len * 0.8, in integers
validate_message(message) ==
  IF message = "" \/ Strip(message) = ""
  THEN [ok |-> FALSE, error |-> "Please type a message!"]
  ELSE IF Len(message) > MAX_MESSAGE_LENGTH
  THEN [ok |-> FALSE, error |-> "Message too long! Maximum " \o ToString(MAX_MESSAGE_LENGTH) \o " characters."]
  ELSE IF 10 * Count(message, CharAt(message, 1)) > 8 * Len(message)
  THEN [ok |-> FALSE, error |-> "Message appears to be spam."]
  ELSE [ok |-> TRUE, error |-> "None"]

(***************************************************************************)
(* The session store: conversations maps a conversation id to its list of  *)
(* messages.  A message id stands for the uuid4 drawn when it is saved.    *)
(***************************************************************************)
Min(a, b) == IF a <= b THEN a ELSE b

\* conversations.get(conversation_id, [])
Get(conv, cid) == IF cid \in DOMAIN conv THEN conv[cid] ELSE <<>>

\* str(uuid.uuid4()): the k-th identifier drawn by the process
Uuid(k) == "uuid-" \o ToString(k)

\* the dictionary save_message appends
NewMessage(id, role, message, now) ==
  [id |-> id, role |-> role, message |-> message, timestamp |-> now.hm]

\* save_message with the slice [-MAX_HISTORY_LENGTH:], which evicts nothing
\* from a full list
save_message_keeps_max(conv, cid, role, message, id, now) ==
  LET created == IF cid \in DOMAIN conv THEN conv ELSE conv @@ (cid :> <<>>)
      limited == IF Len(created[cid]) >= MAX_HISTORY_LENGTH
                 THEN [created EXCEPT ![cid] = SliceLast(@, MAX_HISTORY_LENGTH)]
                 ELSE created
  IN [limited EXCEPT ![cid] = Append(@, NewMessage(id, role, message, now))]

\* save_message with the slice [:MAX_HISTORY_LENGTH-1], which evicts the
\* newest message of a full list
save_message_keeps_oldest(conv, cid, role, message, id, now) ==
  LET created == IF cid \in DOMAIN conv THEN conv ELSE conv @@ (cid :> <<>>)
      limited == IF Len(created[cid]) >= MAX_HISTORY_LENGTH
                 THEN [created EXCEPT ![cid] = SubSeq(@, 1, MAX_HISTORY_LENGTH - 1)]
                 ELSE created
  IN [limited EXCEPT ![cid] = Append(@, NewMessage(id, role, message, now))]

save_message(conv, cid, role, message, id, now) ==
  LET created == IF cid \in DOMAIN conv THEN conv ELSE conv @@ (cid :> <<>>)
      limited == IF Len(created[cid]) >= MAX_HISTORY_LENGTH
                 THEN [created EXCEPT ![cid] = SliceLast(@, MAX_HISTORY_LENGTH - 1)]
                 ELSE created
  IN [limited EXCEPT ![cid] = Append(@, NewMessage(id, role, message, now))]

(***************************************************************************)
(* Command handlers.  Each gives [conv, result]: the store after the call  *)
(* and the result dictionary (export_data is "None" when the key is        *)
(* absent).                                                                *)
(***************************************************************************)
Result(reply, type) == [reply |-> reply, type |-> type, export_data |-> "None"]

RECURSIVE JoinWith(_, _)
\* sep.join(items), by halves
JoinWith(items, sep) ==
  IF Len(items) = 0 THEN ""
  ELSE IF Len(items) = 1 THEN items[1]
  ELSE LET h == Len(items) \div 2
       IN JoinWith(SubSeq(items, 1, h), sep) \o sep
            \o JoinWith(SubSeq(items, h + 1, Len(items)), sep)

\* "\n".join(lines)
JoinLines(lines) == JoinWith(lines, "\n")

\* message[:keep] + "..." when len(message) > limit
Truncate(message, limit, keep) ==
  IF Len(message) > limit THEN SubSeq(message, 1, keep) \o "..." ELSE message

HISTORY_LIMIT == 10

get_conversation_history(conv, cid) ==
  LET msgs == Get(conv, cid)
      shown == SliceLast(msgs, HISTORY_LIMIT)
      line(msg) ==
        (IF msg.role = "user" THEN "#" ELSE "#") \o " **[" \o msg.timestamp \o "] "
          \o (IF msg.role = "user" THEN "You" ELSE "Bot") \o ":** "
          \o Truncate(msg.message, 100, 97)
  IN IF Len(msgs) = 0 THEN "# No conversation history yet."
     ELSE JoinLines(
            <<"# **Recent Messages** (last "
                \o ToString(Min(HISTORY_LIMIT, Len(msgs))) \o "):\n">>
            \o [k \in 1..Len(shown) |-> line(shown[k])])

\* clear_conversation_history emptying the list of every session
clear_conversation_history_all(conv, cid) ==
  IF cid \in DOMAIN conv
  THEN [conv |-> [c \in DOMAIN conv |-> <<>>],
        result |-> Result("## Cleared " \o ToString(Len(conv[cid]))
                            \o " message(s) from your history.", "success")]
  ELSE [conv |-> conv, result |-> Result("# No history to clear.", "info")]

\* clear_conversation_history without the membership test
clear_conversation_history_unguarded(conv, cid) ==
  [conv |-> (cid :> <<>>) @@ conv,
   result |-> Result("## Cleared " \o ToString(Len(Get(conv, cid)))
                       \o " message(s) from your history.", "success")]

\* clear_conversation_history deleting the key
clear_conversation_history_deletes(conv, cid) ==
  IF cid \in DOMAIN conv
  THEN [conv |-> [c \in DOMAIN conv \ {cid} |-> conv[c]],
        result |-> Result("## Cleared " \o ToString(Len(conv[cid]))
                            \o " message(s) from your history.", "success")]
  ELSE [conv |-> conv, result |-> Result("# No history to clear.", "info")]

clear_conversation_history(conv, cid) ==
  IF cid \in DOMAIN conv
  THEN [conv |-> [conv EXCEPT ![cid] = <<>>],
        result |-> Result("## Cleared " \o ToString(Len(conv[cid]))
                            \o " message(s) from your history.", "success")]
  ELSE [conv |-> conv, result |-> Result("# No history to clear.", "info")]

\* len(text.split())
WordCount(text) ==
  Cardinality({i \in 1..Len(text) :
                 /\ ~IsSpace(CharAt(text, i))
                 /\ (i = 1 \/ IsSpace(CharAt(text, i - 1)))})

RECURSIVE SumWords(_, _)
\* sum(len(m['message'].split()) for m in msgs if m['role'] == role), by halves
SumWords(msgs, role) ==
  IF Len(msgs) = 0 THEN 0
  ELSE IF Len(msgs) = 1
  THEN (IF msgs[1].role = role THEN WordCount(msgs[1].message) ELSE 0)
  ELSE LET h == Len(msgs) \div 2
       IN SumWords(SubSeq(msgs, 1, h), role) + SumWords(SubSeq(msgs, h + 1, Len(msgs)), role)

get_conversation_stats(conv, cid) ==
  LET msgs == Get(conv, cid)
      nrole(role) == Cardinality({k \in 1..Len(msgs) : msgs[k].role = role})
  IN IF Len(msgs) = 0 THEN Result("# No statistics available yet.", "info")
     ELSE Result(
       "# **Conversation Statistics:**\n\n"
         \o "# Total messages: " \o ToString(Len(msgs)) \o "\n"
         \o "# Your messages: " \o ToString(nrole("user")) \o " ("
         \o ToString(SumWords(msgs, "user")) \o " words)\n"
         \o "# Bot messages: " \o ToString(nrole("bot")) \o " ("
         \o ToString(SumWords(msgs, "bot")) \o " words)\n"
         \o "# First message: " \o msgs[1].timestamp \o "\n"
         \o "# Last message: " \o msgs[Len(msgs)].timestamp \o "\n"
         \o "# Session ID: ^" \o SubSeq(cid, 1, Min(16, Len(cid))) \o "...^",
       "info")

SEARCH_LIMIT == 5

search_conversation(conv, cid, query) ==
  LET msgs == Get(conv, cid)
      query_lower == Lower(query)
      results == SelectSeq(msgs, LAMBDA m : Contains(Lower(m.message), query_lower))
      shown == SliceLast(results, SEARCH_LIMIT)
      line(msg) ==
        "# **[" \o msg.timestamp \o "] "
          \o (IF msg.role = "user" THEN "You" ELSE "Bot") \o ":** "
          \o Truncate(msg.message, 80, 77)
  IN IF Len(msgs) = 0 THEN Result("# No messages to search.", "info")
     ELSE IF Len(results) = 0
     THEN Result("# No messages found matching \"" \o query \o "\"", "info")
     ELSE Result(
       JoinLines(<<"# **Found " \o ToString(Len(results))
                     \o " message(s) matching \"" \o query \o "\":**\n">>
                 \o [k \in 1..Len(shown) |-> line(shown[k])]),
       "info")

RECURSIVE JsonEscape(_)
\* the body of a JSON string as json.dumps(ensure_ascii=False) writes it
JsonEscape(text) ==
  IF Len(text) = 0 THEN ""
  ELSE IF Len(text) = 1
  THEN CASE text = "\"" -> "\\\""
         [] text = "\\" -> "\\\\"
         [] text = "\n" -> "\\n"
         [] text = "\r" -> "\\r"
         [] text = "\t" -> "\\t"
         [] text = "\f" -> "\\f"
         [] OTHER -> text
  ELSE LET h == Len(text) \div 2
       IN JsonEscape(SubSeq(text, 1, h)) \o JsonEscape(SubSeq(text, h + 1, Len(text)))

\* json.dumps(export_data, ensure_ascii=False, indent=2)
JsonDumps(export_data) ==
  LET str(v) == "\"" \o JsonEscape(v) \o "\""
      item(m) ==
        "    {\n"
          \o "      \"id\": " \o str(m.id) \o ",\n"
          \o "      \"role\": " \o str(m.role) \o ",\n"
          \o "      \"message\": " \o str(m.message) \o ",\n"
          \o "      \"timestamp\": " \o str(m.timestamp) \o "\n"
          \o "    }"
      msgs == export_data.messages
  IN "{\n"
       \o "  \"conversation_id\": " \o str(export_data.conversation_id) \o ",\n"
       \o "  \"export_time\": " \o str(export_data.export_time) \o ",\n"
       \o "  \"message_count\": " \o ToString(export_data.message_count) \o ",\n"
       \o "  \"messages\": "
       \o (IF Len(msgs) = 0 THEN "[]"
           ELSE "[\n" \o JoinWith([k \in 1..Len(msgs) |-> item(msgs[k])], ",\n")
                  \o "\n  ]")
       \o "\n}"

EXPORT_PREVIEW == 500

\* export_conversation serializing the messages the history view shows
export_conversation_recent(conv, cid, now) ==
  LET msgs == SliceLast(Get(conv, cid), HISTORY_LIMIT)
      json_str == JsonDumps([conversation_id |-> cid, export_time |-> now.iso,
                             message_count |-> Len(msgs), messages |-> msgs])
  IN IF Len(msgs) = 0 THEN Result("# No messages to export.", "info")
     ELSE [reply |-> "# **Conversation Export:**\n\nCopy the JSON below:\n\n^^^json\n"
                       \o SubSeq(json_str, 1, Min(EXPORT_PREVIEW, Len(json_str)))
                       \o "\n...\n^^^\n\n(Full export available via API)",
           type |-> "success",
           export_data |-> json_str]

export_conversation(conv, cid, now) ==
  LET msgs == Get(conv, cid)
      json_str == JsonDumps([conversation_id |-> cid, export_time |-> now.iso,
                             message_count |-> Len(msgs), messages |-> msgs])
  IN IF Len(msgs) = 0 THEN Result("# No messages to export.", "info")
     ELSE [reply |-> "# **Conversation Export:**\n\nCopy the JSON below:\n\n^^^json\n"
                       \o SubSeq(json_str, 1, Min(EXPORT_PREVIEW, Len(json_str)))
                       \o "\n...\n^^^\n\n(Full export available via API)",
           type |-> "success",
           export_data |-> json_str]

get_help_text ==
  "# **Available Commands:**\n\n**Information:**\n# ^/time^ - Show current time\n# ^/date^ - Show current date\n# ^/joke^ - Tell a random joke\n# ^/stats^ - View conversation statistics\n\n**History:**\n# ^/history^ - View recent messages\n# ^/search <query>^ - Search your messages\n# ^/clear^ - Clear conversation history\n# ^/export^ - Export conversation as JSON\n\n**Other:**\n# ^/whoami^ - Show your session info\n# ^/help^ - Show this help message\n\n# **Tip:** You can also just chat naturally with me!"

\* the keys of the handlers table
COMMANDS ==
  {"/time", "/date", "/help", "/commands", "/joke", "/history", "/whoami",
   "/clear", "/clear_history", "/stats", "/export"}

\* handlers[command](): the outcomes [conv, result] the handler can give
\* the handlers reading the session with conversations.setdefault(id, [])
RunHandler_setdefault(command, conv, cid, now) ==
  LET made == conv @@ (cid :> <<>>)
  IN CASE command = "/time" ->
            {[conv |-> conv, result |-> Result("# Current time: " \o now.hms, "info")]}
       [] command = "/date" ->
            {[conv |-> conv, result |-> Result("# Today is " \o now.date, "info")]}
       [] command \in {"/help", "/commands"} ->
            {[conv |-> conv, result |-> Result(get_help_text, "info")]}
       [] command = "/joke" ->
            {[conv |-> conv, result |-> Result(j, "info")] : j \in get_random_joke}
       [] command = "/history" ->
            {[conv |-> made, result |-> Result(get_conversation_history(conv, cid), "info")]}
       [] command = "/whoami" ->
            {[conv |-> made,
              result |-> Result("# Your conversation ID: ^" \o cid \o "^\n"
                                  \o "# Messages in session: "
                                  \o ToString(Len(Get(conv, cid))), "info")]}
       [] command \in {"/clear", "/clear_history"} ->
            {clear_conversation_history(conv, cid)}
       [] command = "/stats" ->
            {[conv |-> made, result |-> get_conversation_stats(conv, cid)]}
       [] command = "/export" ->
            {[conv |-> made, result |-> export_conversation(conv, cid, now)]}

RunHandler(command, conv, cid, now) ==
  CASE command = "/time" ->
         {[conv |-> conv, result |-> Result("# Current time: " \o now.hms, "info")]}
    [] command = "/date" ->
         {[conv |-> conv, result |-> Result("# Today is " \o now.date, "info")]}
    [] command \in {"/help", "/commands"} ->
         {[conv |-> conv, result |-> Result(get_help_text, "info")]}
    [] command = "/joke" ->
         {[conv |-> conv, result |-> Result(j, "info")] : j \in get_random_joke}
    [] command = "/history" ->
         {[conv |-> conv, result |-> Result(get_conversation_history(conv, cid), "info")]}
    [] command = "/whoami" ->
         {[conv |-> conv,
           result |-> Result("# Your conversation ID: ^" \o cid \o "^\n"
                               \o "# Messages in session: "
                               \o ToString(Len(Get(conv, cid))), "info")]}
    [] command \in {"/clear", "/clear_history"} ->
         {clear_conversation_history(conv, cid)}
    [] command = "/stats" ->
         {[conv |-> conv, result |-> get_conversation_stats(conv, cid)]}
    [] command = "/export" ->
         {[conv |-> conv, result |-> export_conversation(conv, cid, now)]}

\* handle_local_command without the test of the search argument
handle_local_command_searches_empty(conv, cid, cmd, now) ==
  LET cmd_lower == Strip(Lower(cmd))
      parts == SplitFirst(cmd_lower)
      command == parts[1]
      argument == IF Len(parts) > 1 THEN parts[2] ELSE ""
  IN IF command = "/search"
     THEN {[conv |-> conv, result |-> search_conversation(conv, cid, argument)]}
     ELSE IF command \in COMMANDS
     THEN RunHandler(command, conv, cid, now)
     ELSE {[conv |-> conv,
            result |-> Result("# Unknown command: " \o command
                                \o "\nType /help for available commands.", "error")]}

\* handle_local_command looking the command up as typed, not lower-cased
handle_local_command_case_sensitive(conv, cid, cmd, now) ==
  LET parts == SplitFirst(Strip(cmd))
      command == parts[1]
      argument == IF Len(parts) > 1 THEN Lower(parts[2]) ELSE ""
  IN IF command = "/search"
     THEN IF argument = ""
          THEN {[conv |-> conv,
                 result |-> Result("# Usage: /search <query>\nExample: /search hello",
                                   "error")]}
          ELSE {[conv |-> conv, result |-> search_conversation(conv, cid, argument)]}
     ELSE IF command \in COMMANDS
     THEN RunHandler(command, conv, cid, now)
     ELSE {[conv |-> conv,
            result |-> Result("# Unknown command: " \o command
                                \o "\nType /help for available commands.", "error")]}

\* handle_local_command for a stripped, non-empty cmd: the set of outcomes
\* [conv, result]
handle_local_command(conv, cid, cmd, now) ==
  LET cmd_lower == Strip(Lower(cmd))
      parts == SplitFirst(cmd_lower)
      command == parts[1]
      argument == IF Len(parts) > 1 THEN parts[2] ELSE ""
  IN IF command = "/search"
     THEN IF argument = ""
          THEN {[conv |-> conv,
                 result |-> Result("# Usage: /search <query>\nExample: /search hello",
                                   "error")]}
          ELSE {[conv |-> conv, result |-> search_conversation(conv, cid, argument)]}
     ELSE IF command \in COMMANDS
     THEN RunHandler(command, conv, cid, now)
     ELSE {[conv |-> conv,
            result |-> Result("# Unknown command: " \o command
                                \o "\nType /help for available commands.", "error")]}

(***************************************************************************)
(* The LLM gateway.                                                        *)
(***************************************************************************)
SYSTEM_PROMPT ==
  "You are a helpful, friendly, and concise AI assistant. Provide clear and accurate responses. Use emojis sparingly for friendliness."

AI_UNAVAILABLE ==
  "# AI features are currently unavailable. OpenAI API key not configured."

AI_TROUBLE ==
  "# I'm having trouble connecting to my AI brain right now. Please try again in a moment."

\* what client.chat.completions.create can do: return a completion with this
\* content, or raise (timeout, transport or authentication failure)
Completions ==
  {[raised |-> FALSE, content |-> " Here is what I found. "],
   [raised |-> TRUE, content |-> ""]}

\* the messages list built from a history that already holds the current
\* message
BuildMessages_with_current(user_message, user_history) ==
  LET recent == SliceLast(Append(user_history,
                                 [role |-> "user", message |-> user_message]),
                          CONTEXT_WINDOW)
  IN <<[role |-> "system", content |-> SYSTEM_PROMPT]>>
       \o [k \in 1..Len(recent) |->
             [role |-> IF recent[k].role = "bot" THEN "assistant" ELSE "user",
              content |-> recent[k].message]]
       \o <<[role |-> "user", content |-> user_message]>>

\* the messages list ask_openai builds for the call
BuildMessages(user_message, user_history) ==
  LET recent == SliceLast(user_history, CONTEXT_WINDOW)
  IN <<[role |-> "system", content |-> SYSTEM_PROMPT]>>
       \o [k \in 1..Len(recent) |->
             [role |-> IF recent[k].role = "bot" THEN "assistant" ELSE "user",
              content |-> recent[k].message]]
       \o <<[role |-> "user", content |-> user_message]>>

\* ask_openai without the test of client: the call on None raises and the
\* except clause answers
ask_openai_no_client_check(user_message, cid, conv, client) ==
  IF ~client THEN {[reply |-> AI_TROUBLE, request |-> <<>>, raised |-> TRUE]}
  ELSE LET messages == BuildMessages(user_message, Get(conv, cid))
       IN {[reply |-> IF c.raised THEN AI_TROUBLE ELSE Strip(c.content),
            request |-> messages, raised |-> c.raised] : c \in Completions}

\* ask_openai: the outcomes [reply, request, raised]; request is the messages
\* list handed to the client (<<>> when no call is made), raised tells whether
\* the call raised and the except clause answered
ask_openai(user_message, cid, conv, client) ==
  IF ~client THEN {[reply |-> AI_UNAVAILABLE, request |-> <<>>, raised |-> FALSE]}
  ELSE LET messages == BuildMessages(user_message, Get(conv, cid))
       IN {[reply |-> IF c.raised THEN AI_TROUBLE ELSE Strip(c.content),
            request |-> messages, raised |-> c.raised] : c \in Completions}

(***************************************************************************)
(* The request pipeline.  A response is the JSON body with its status; a   *)
(* key the body does not have reads Absent, a null value reads Null.       *)
(***************************************************************************)
Absent == "<absent>"

Null == "null"

Response(status, error, reply, type, source, intent, timestamp) ==
  [status |-> status, error |-> error, reply |-> reply, type |-> type,
   source |-> source, intent |-> intent, timestamp |-> timestamp]

\* no command result: the request did not reach handle_local_command
NoResult == [reply |-> Absent, type |-> Absent, export_data |-> "None"]

\* the two save_message calls in the other order
save_exchange_bot_first(conv, ctr, cid, user_message, bot_reply, now) ==
  save_message(save_message(conv, cid, "bot", bot_reply, Uuid(ctr + 1), now),
               cid, "user", user_message, Uuid(ctr + 2), now)

\* the exchange recorded by its reply alone
save_exchange_reply_only(conv, ctr, cid, user_message, bot_reply, now) ==
  save_message(conv, cid, "bot", bot_reply, Uuid(ctr + 2), now)

\* the two save_message calls that record an exchange; ctr counts the uuids
\* drawn so far
save_exchange(conv, ctr, cid, user_message, bot_reply, now) ==
  save_message(save_message(conv, cid, "user", user_message, Uuid(ctr + 1), now),
               cid, "bot", bot_reply, Uuid(ctr + 2), now)

\* validation failed: 400 with the message, nothing else is done
reject(conv, ctr, error) ==
  {[conv |-> conv, ctr |-> ctr,
    response |-> Response(400, error, Absent, Absent, Absent, Absent, Absent),
    reached |-> {}, request |-> <<>>, handled |-> conv, saved |-> <<>>,
    result |-> NoResult]}

\* the command branch saving the exchange only when the result is no error
command_path_skips_errors(conv, ctr, cid, user_message, now) ==
  {[conv |-> IF c.result.type = "error" THEN c.conv
             ELSE save_exchange(c.conv, ctr, cid, user_message, c.result.reply, now),
    ctr |-> IF c.result.type = "error" THEN ctr ELSE ctr + 2,
    response |-> Response(200, Absent, c.result.reply, c.result.type, Absent,
                          Absent, now.hm),
    reached |-> {"handle_local_command"}, request |-> <<>>, handled |-> c.conv,
    result |-> c.result,
    saved |-> IF c.result.type = "error" THEN <<>>
              ELSE <<NewMessage(Uuid(ctr + 1), "user", user_message, now),
                     NewMessage(Uuid(ctr + 2), "bot", c.result.reply, now)>>] :
     c \in handle_local_command(conv, cid, user_message, now)}

\* the command branch running the command on the store that already holds
\* the command text
command_path_handles_last(conv, ctr, cid, user_message, now) ==
  {[conv |-> save_message(c.conv, cid, "bot", c.result.reply, Uuid(ctr + 2), now),
    ctr |-> ctr + 2,
    response |-> Response(200, Absent, c.result.reply, c.result.type, Absent,
                          Absent, now.hm),
    reached |-> {"handle_local_command"}, request |-> <<>>, handled |-> c.conv,
    result |-> c.result,
    saved |-> <<NewMessage(Uuid(ctr + 1), "user", user_message, now),
                NewMessage(Uuid(ctr + 2), "bot", c.result.reply, now)>>] :
     c \in handle_local_command(
             save_message(conv, cid, "user", user_message, Uuid(ctr + 1), now),
             cid, user_message, now)}

\* user_message.startswith('/'): the command router answers.  The result
\* dictionary is never empty, so the branch always returns.
command_path(conv, ctr, cid, user_message, now) ==
  {[conv |-> save_exchange(c.conv, ctr, cid, user_message, c.result.reply, now),
    ctr |-> ctr + 2,
    response |-> Response(200, Absent, c.result.reply, c.result.type, Absent,
                          Absent, now.hm),
    reached |-> {"handle_local_command"}, request |-> <<>>, handled |-> c.conv,
    result |-> c.result,
    saved |-> <<NewMessage(Uuid(ctr + 1), "user", user_message, now),
                NewMessage(Uuid(ctr + 2), "bot", c.result.reply, now)>>] :
     c \in handle_local_command(conv, cid, user_message, now)}

\* the test with > in place of >=
use_intent_strict(intent, confidence) ==
  intent # "unknown" /\ confidence > HIGH_CONFIDENCE_THRESHOLD

\* the test that selects the intent-based response
use_intent(intent, confidence) ==
  intent # "unknown" /\ confidence >= HIGH_CONFIDENCE_THRESHOLD

\* random.choice over the responses of the rule, then the call if callable
intent_replies(intent, now) ==
  LET response_data == IntentRule(intent).responses
  IN UNION {Resolve(response_data[k], now) : k \in 1..Len(response_data)}

chat_outcome(conv, ctr, cid, user_message, bot_reply, source, intent, reached, request, now) ==
  [conv |-> save_exchange(conv, ctr, cid, user_message, bot_reply, now),
   ctr |-> ctr + 2,
   response |-> Response(200, Absent, bot_reply, Absent, source,
                         IF intent # "unknown" THEN intent ELSE Null, now.hm),
   reached |-> reached, request |-> request, handled |-> conv, result |-> NoResult,
   saved |-> <<NewMessage(Uuid(ctr + 1), "user", user_message, now),
               NewMessage(Uuid(ctr + 2), "bot", bot_reply, now)>>]

chat_path(conv, ctr, client, cid, user_message, now) ==
  LET d == detect_intent(user_message)
      intent == d[1]
      confidence == d[2]
  IN IF use_intent(intent, confidence)
     THEN {chat_outcome(conv, ctr, cid, user_message, r, "intent", intent,
                        {"detect_intent"}, <<>>, now) :
             r \in intent_replies(intent, now)}
     ELSE {chat_outcome(conv, ctr, cid, user_message, a.reply, "ai", intent,
                        {"detect_intent", "ask_openai"}
                          \cup (IF a.request # <<>> THEN {"client"} ELSE {})
                          \cup (IF a.raised THEN {"client_raised"} ELSE {}),
                        a.request, now) :
             a \in ask_openai(user_message, cid, conv, client)}

\* get_response saving the user message before it validates
get_response_saves_first(conv, ctr, client, cid, raw, now) ==
  LET user_message == Strip(raw)
      v == validate_message(user_message)
  IN IF ~v.ok
     THEN reject(save_message(conv, cid, "user", user_message, Uuid(ctr + 1), now),
                 ctr + 1, v.error)
     ELSE IF StartsWith(user_message, "/")
     THEN command_path(conv, ctr, cid, user_message, now)
     ELSE chat_path(conv, ctr, client, cid, user_message, now)

\* get_response classifying the intent before it looks for a command
get_response_intent_first(conv, ctr, client, cid, raw, now) ==
  LET user_message == Strip(raw)
      v == validate_message(user_message)
      d == detect_intent(user_message)
  IN IF ~v.ok THEN reject(conv, ctr, v.error)
     ELSE IF use_intent(d[1], d[2])
     THEN chat_path(conv, ctr, client, cid, user_message, now)
     ELSE IF StartsWith(user_message, "/")
     THEN command_path(conv, ctr, cid, user_message, now)
     ELSE chat_path(conv, ctr, client, cid, user_message, now)

\* get_response for the body {"message": raw} of the session cid: the set of
\* outcomes [conv, ctr, response, ...]
get_response(conv, ctr, client, cid, raw, now) ==
  LET user_message == Strip(raw)
      v == validate_message(user_message)
  IN IF ~v.ok THEN reject(conv, ctr, v.error)
     ELSE IF StartsWith(user_message, "/")
     THEN command_path(conv, ctr, cid, user_message, now)
     ELSE chat_path(conv, ctr, client, cid, user_message, now)

\* str(e) of an exception raised inside a handler
FailureText == "failure"

\* no command result: the exception left handle_local_command
Raised == [reply |-> Absent, type |-> "raised", export_data |-> "None"]

\* whether handle_local_command calls a handler for cmd: search_conversation
\* or one of the registered handlers
CallsHandler(cmd) ==
  LET parts == SplitFirst(Strip(Lower(cmd)))
  IN \/ parts[1] = "/search" /\ Len(parts) > 1
     \/ parts[1] \in COMMANDS

\* handle_local_command when the handler it calls raises an Exception:
\* search_conversation is called before the try, the registered handlers
\* inside it (a handler may have changed the store before it raised);
\* export_conversation catches what json.dumps raises by itself
handle_local_command_failing(conv, cid, cmd, now) ==
  LET cmd_lower == Strip(Lower(cmd))
      parts == SplitFirst(cmd_lower)
      command == parts[1]
  IN IF ~CallsHandler(cmd) THEN handle_local_command(conv, cid, cmd, now)
     ELSE IF command = "/search" THEN {[conv |-> conv, result |-> Raised]}
     ELSE {[conv |-> c,
            result |-> Result("# Error executing command: " \o FailureText, "error")] :
             c \in {conv} \cup {o.conv : o \in RunHandler(command, conv, cid, now)}}
          \cup (IF command = "/export" /\ Get(conv, cid) # <<>>
                THEN {[conv |-> conv,
                       result |-> Result("# Export failed: " \o FailureText, "error")]}
                ELSE {})

\* get_response for a request during which the handler of the command
\* raises: what leaves handle_local_command is caught by the except of
\* get_response and answered with status 500
get_response_failing(conv, ctr, client, cid, raw, now) ==
  LET user_message == Strip(raw)
      v == validate_message(user_message)
  IN IF ~v.ok THEN reject(conv, ctr, v.error)
     ELSE IF StartsWith(user_message, "/")
     THEN {IF c.result = Raised
           THEN [conv |-> c.conv, ctr |-> ctr,
                 response |-> Response(500, "An error occurred processing your message.",
                                       Absent, Absent, Absent, Absent, Absent),
                 reached |-> {"handle_local_command", "raise"}, request |-> <<>>,
                 handled |-> c.conv, result |-> c.result, saved |-> <<>>]
           ELSE [conv |-> save_exchange(c.conv, ctr, cid, user_message, c.result.reply, now),
                 ctr |-> ctr + 2,
                 response |-> Response(200, Absent, c.result.reply, c.result.type, Absent,
                                       Absent, now.hm),
                 reached |-> {"handle_local_command", "raise"}, request |-> <<>>,
                 handled |-> c.conv, result |-> c.result,
                 saved |-> <<NewMessage(Uuid(ctr + 1), "user", user_message, now),
                             NewMessage(Uuid(ctr + 2), "bot", c.result.reply, now)>>] :
             c \in handle_local_command_failing(conv, cid, user_message, now)}
     ELSE chat_path(conv, ctr, client, cid, user_message, now)

(***************************************************************************)
(* The interactive variant (cli_chat.py).  What it prints is a sequence of *)
(* lines [kind, text]: kind names the print function (info, success,       *)
(* error, header) or is "line" for a plain print; colours are left out.    *)
(* A message is a dictionary with the keys id, who, text, ts; an imported  *)
(* one may lack any key but text.                                          *)
(***************************************************************************)
Out(kind, text) == [kind |-> kind, text |-> text]

\* msg.get(key, default)
MsgGet(msg, key, default) == IF key \in DOMAIN msg THEN msg[key] ELSE default

\* who in ('me', 'user', 'you')
IsUser(who) == who \in {"me", "user", "you"}

\* uuid.uuid4().hex: the k-th identifier drawn by the process
Hex(k) == "hex" \o ToString(k)

\* a dictionary loaded from JSON is a sequence of <<key, value>> in the
\* order of the file
DictGet(dict, key, default) ==
  IF \E i \in 1..Len(dict) : dict[i][1] = key
  THEN dict[CHOOSE i \in 1..Len(dict) : dict[i][1] = key][2]
  ELSE default

\* dict[key] = value
DictSet(dict, key, value) ==
  IF \E i \in 1..Len(dict) : dict[i][1] = key
  THEN [i \in 1..Len(dict) |-> IF dict[i][1] = key THEN <<key, value>> ELSE dict[i]]
  ELSE Append(dict, <<key, value>>)

\* the contents of a file: none, text that is no JSON, bytes that are no
\* UTF-8 text, a JSON list, a JSON object, or another JSON value
NoFile == [kind |-> "absent", data |-> <<>>]

CorruptFile == [kind |-> "invalid", data |-> <<>>]

UndecodableFile == [kind |-> "undecodable", data |-> <<>>]

JsonFile(kind, data) == [kind |-> kind, data |-> data]

\* json.dump: a string as the file holds it
JsonString(text) == "\"" \o JsonEscape(text) \o "\""

\* json.load that drops the quotes and keeps the escapes
JsonParse_keeps_escapes(lit) ==
  IF ~StartsWith(lit, "\"") THEN lit ELSE SubSeq(lit, 2, Len(lit) - 1)

\* json.load: the value a literal of the file stands for; in a string literal
\* a backslash that is not itself escaped announces the next character
JsonParse(lit) ==
  IF ~StartsWith(lit, "\"") THEN lit
  ELSE LET body == SubSeq(lit, 2, Len(lit) - 1)
           other(i) == {0} \cup {j \in 1..i : CharAt(body, j) # "\\"}
           run(i) == i - (CHOOSE j \in other(i) : \A k \in other(i) : k <= j)
           escapes(i) == CharAt(body, i) = "\\" /\ run(i) % 2 = 1
           decode(c) ==
             CASE c = "n" -> "\n"
               [] c = "r" -> "\r"
               [] c = "t" -> "\t"
               [] c = "f" -> "\f"
               [] OTHER -> c
           piece(i) ==
             IF escapes(i) THEN ""
             ELSE IF i > 1 /\ escapes(i - 1) THEN decode(CharAt(body, i))
             ELSE CharAt(body, i)
       IN JoinWith([i \in 1..Len(body) |-> piece(i)], "")

\* json.dump of a list of messages: every message an object of literals
JsonDumpList(messages) ==
  [k \in 1..Len(messages) |->
     [f \in DOMAIN messages[k] |-> JsonString(messages[k][f])]]

\* json.load of a list of objects
JsonLoadList(data) ==
  [k \in 1..Len(data) |-> [f \in DOMAIN data[k] |-> JsonParse(data[k][f])]]

\* json.dump of the dictionary of all users
JsonDumpChats(data) ==
  [i \in 1..Len(data) |-> <<JsonString(data[i][1]), JsonDumpList(data[i][2])>>]

\* json.load of the dictionary of all users
JsonLoadChats(data) ==
  [i \in 1..Len(data) |-> <<JsonParse(data[i][1]), JsonLoadList(data[i][2])>>]

\* _read_all_chats: the value read (dict tells whether it is a dictionary),
\* the files afterwards, what is printed
read_all_chats(fs) ==
  IF fs.chats.kind = "absent" THEN [data |-> <<>>, dict |-> TRUE, fs |-> fs, out |-> <<>>]
  ELSE IF fs.chats.kind = "invalid"
  THEN [data |-> <<>>, dict |-> TRUE,
        fs |-> [fs EXCEPT !.chats = NoFile, !.backup = fs.chats],
        out |-> <<Out("error", "Chat file is corrupted. Creating backup...")>>]
  ELSE IF fs.chats.kind = "undecodable"
  THEN [data |-> <<>>, dict |-> TRUE, fs |-> fs,
        out |-> <<Out("error", "Error reading chats: 'utf-8' codec can't decode byte")>>]
  ELSE IF fs.chats.kind = "object"
  THEN [data |-> JsonLoadChats(fs.chats.data), dict |-> TRUE, fs |-> fs, out |-> <<>>]
  ELSE [data |-> <<>>, dict |-> FALSE, fs |-> fs, out |-> <<>>]

\* _write_all_chats
write_all_chats(fs, data) == [fs EXCEPT !.chats = JsonFile("object", JsonDumpChats(data))]

\* load_user_chat giving the first entry of the file, whoever asks
load_user_chat_first_entry(fs, uid) ==
  LET r == read_all_chats(fs)
  IN [messages |-> IF Len(r.data) = 0 THEN <<>> ELSE r.data[1][2], fs |-> r.fs,
      out |-> r.out, raised |-> ~r.dict]

\* load_user_chat; raised tells that .get was called on a value that is no
\* dictionary
load_user_chat(fs, uid) ==
  LET r == read_all_chats(fs)
  IN [messages |-> DictGet(r.data, uid, <<>>), fs |-> r.fs, out |-> r.out,
      raised |-> ~r.dict]

\* save_user_chat, called after a load of the same file gave a dictionary
save_user_chat(fs, uid, messages) ==
  LET r == read_all_chats(fs)
  IN [fs |-> write_all_chats(r.fs, DictSet(r.data, uid, messages)), out |-> r.out]

\* get_all_users
get_all_users(fs) ==
  LET r == read_all_chats(fs)
  IN [users |-> [i \in 1..Len(r.data) |-> r.data[i][1]], fs |-> r.fs, out |-> r.out]

\* any(word in t for word in words)
AnyIn(words, t) == \E w \in words : Contains(t, w)

\* rule_based_reply: the replies random.choice may give
rule_based_reply(text) ==
  LET t == Lower(Strip(text))
  IN IF t = "" THEN {"Please say something."}
     ELSE IF AnyIn({"hello", "hi", "hey", "greetings", "howdy", "hola"}, t)
     THEN {"Hello! How can I help you today?", "Hi there! What can I do for you?",
           "Hey! Great to see you!", "Greetings! How may I assist you?"}
     ELSE IF AnyIn({"how are you", "how r you", "how're you", "how are u"}, t)
     THEN {"I'm doing great, thank you for asking!",
           "I'm functioning perfectly! How about you?",
           "Excellent! Ready to chat!", "I'm fantastic! Thanks for asking!"}
     ELSE IF AnyIn({"bye", "goodbye", "see you", "farewell", "later", "cya"}, t)
     THEN {"Goodbye! Have a great day!", "See you later! Take care!",
           "Farewell! Come back soon!", "Bye! It was nice chatting with you!"}
     ELSE IF Contains(t, "your name") \/ Contains(t, "who are you")
     THEN {"I'm ChatPy, your friendly CLI chatbot assistant!"}
     ELSE IF AnyIn({"what can you do", "your capabilities", "can you help"}, t)
     THEN {"I can chat with you, answer questions, tell jokes, and more! Type /help to see all commands."}
     ELSE IF AnyIn({"thank", "thanks", "thx", "appreciate"}, t)
     THEN {"You're welcome!", "Happy to help!", "Anytime!", "My pleasure!"}
     ELSE IF AnyIn({"help", "assist", "support"}, t)
     THEN {"Sure! I'm here to help. What do you need assistance with? Type /help for available commands."}
     ELSE IF Contains(t, "how old") \/ Contains(t, "your age")
     THEN {"I was created recently, so I'm quite young in AI years!"}
     ELSE IF AnyIn({"where are you", "your location", "where do you live"}, t)
     THEN {"I exist in the digital realm, living inside your terminal!"}
     ELSE IF Contains(t, "weather")
     THEN {"I can't check the weather, but I hope it's nice where you are!"}
     ELSE IF AnyIn({"i love you", "i like you", "you're awesome", "you're great"}, t)
     THEN {"Aww, that's so kind! I enjoy chatting with you too! #"}
     ELSE IF Contains(t, "?")
     THEN {"That's an interesting question! I'm a simple chatbot, so my knowledge is limited. Try rephrasing or type /help for commands."}
     ELSE {"I'm not sure I understand. Could you rephrase that?",
           "Hmm, I didn't quite catch that. Can you try again?",
           "I'm still learning! Can you say that differently?",
           "Sorry, I don't have a good response for that yet.",
           "That's beyond my current capabilities. Type /help for what I can do!"}

CLI_HISTORY_LIMIT == 50

\* handle_history: what it prints
handle_history(messages) ==
  IF Len(messages) = 0 THEN <<Out("info", "No messages in history yet.")>>
  ELSE LET display_messages == IF Len(messages) > CLI_HISTORY_LIMIT
                               THEN SliceLast(messages, CLI_HISTORY_LIMIT)
                               ELSE messages
       IN <<Out("header", "Chat History")>>
          \o (IF Len(messages) > CLI_HISTORY_LIMIT
              THEN <<Out("info", "Showing last " \o ToString(CLI_HISTORY_LIMIT) \o " of "
                                   \o ToString(Len(messages)) \o " messages")>>
              ELSE <<>>)
          \o [k \in 1..Len(display_messages) |->
                Out("line", "[" \o MsgGet(display_messages[k], "ts", "") \o "] "
                              \o (IF IsUser(MsgGet(display_messages[k], "who", "unknown"))
                                  THEN "You: " ELSE "Bot: ")
                              \o MsgGet(display_messages[k], "text", ""))]

CLI_SEARCH_LIMIT == 20

\* the messages handle_search finds
SearchResults(messages, query) ==
  SelectSeq(messages, LAMBDA msg : Contains(Lower(MsgGet(msg, "text", "")), Lower(query)))

\* handle_search showing the first results instead of the last
handle_search_first_results(messages, query) ==
  IF query = ""
  THEN <<Out("error", "Please provide a search query. Usage: /search <query>")>>
  ELSE LET results == SearchResults(messages, query)
           shown == SubSeq(results, 1, Min(Len(results), CLI_SEARCH_LIMIT))
       IN IF Len(results) = 0
          THEN <<Out("info", "No messages found matching '" \o query \o "'")>>
          ELSE <<Out("header", "Search Results for '" \o query \o "'"),
                 Out("info", "Found " \o ToString(Len(results)) \o " message(s)")>>
               \o [k \in 1..Len(shown) |->
                     Out("line", "[" \o MsgGet(shown[k], "ts", "") \o "] "
                                   \o (IF IsUser(MsgGet(shown[k], "who", "None"))
                                       THEN "You" ELSE "Bot")
                                   \o ": " \o MsgGet(shown[k], "text", ""))]

\* handle_search: what it prints
handle_search(messages, query) ==
  IF query = ""
  THEN <<Out("error", "Please provide a search query. Usage: /search <query>")>>
  ELSE LET results == SearchResults(messages, query)
           shown == SliceLast(results, CLI_SEARCH_LIMIT)
       IN IF Len(results) = 0
          THEN <<Out("info", "No messages found matching '" \o query \o "'")>>
          ELSE <<Out("header", "Search Results for '" \o query \o "'"),
                 Out("info", "Found " \o ToString(Len(results)) \o " message(s)")>>
               \o [k \in 1..Len(shown) |->
                     Out("line", "[" \o MsgGet(shown[k], "ts", "") \o "] "
                                   \o (IF IsUser(MsgGet(shown[k], "who", "None"))
                                       THEN "You" ELSE "Bot")
                                   \o ": " \o MsgGet(shown[k], "text", ""))]

RECURSIVE CliWords(_)
\* sum(len(m.get('text', '').split()) for m in msgs), by halves
CliWords(msgs) ==
  IF Len(msgs) = 0 THEN 0
  ELSE IF Len(msgs) = 1 THEN WordCount(MsgGet(msgs[1], "text", ""))
  ELSE LET h == Len(msgs) \div 2
       IN CliWords(SubSeq(msgs, 1, h)) + CliWords(SubSeq(msgs, h + 1, Len(msgs)))

\* handle_stats: what it prints
handle_stats(messages, uid) ==
  IF Len(messages) = 0 THEN <<Out("info", "No statistics available yet.")>>
  ELSE LET user_msgs == SelectSeq(messages, LAMBDA m : IsUser(MsgGet(m, "who", "None")))
           bot_msgs == SelectSeq(messages, LAMBDA m : MsgGet(m, "who", "None") = "bot")
       IN <<Out("header", "Chat Statistics"),
            Out("line", "User ID: " \o uid),
            Out("line", "Total messages: " \o ToString(Len(messages))),
            Out("line", "Your messages: " \o ToString(Len(user_msgs))),
            Out("line", "Bot messages: " \o ToString(Len(bot_msgs))),
            Out("line", "Your words: " \o ToString(CliWords(user_msgs))),
            Out("line", "Bot words: " \o ToString(CliWords(bot_msgs))),
            Out("line", "First message: " \o MsgGet(messages[1], "ts", "Unknown")),
            Out("line", "Last message: " \o MsgGet(messages[Len(messages)], "ts", "Unknown"))>>

\* the path handle_export writes, under the program's directory
ExportPath(uid, now) == "exports/chat_export_" \o uid \o "_" \o now.stamp \o ".json"

\* handle_export: the files afterwards and what is printed
handle_export(messages, uid, fs, now) ==
  IF Len(messages) = 0
  THEN [fs |-> fs, out |-> <<Out("info", "No messages to export.")>>]
  ELSE [fs |-> [fs EXCEPT !.files =
                  (ExportPath(uid, now) :> JsonFile("list", JsonDumpList(messages))) @@ @],
        out |-> <<Out("success", "Chat exported to: " \o ExportPath(uid, now))>>]

\* isinstance(msg, dict) and 'text' in msg
ValidEntry(entry) == "text" \in DOMAIN entry

\* handle_import: the messages and files afterwards, what is printed, and
\* the value returned
handle_import(messages, uid, filepath, fs) ==
  LET failed(text) ==
        [messages |-> messages, fs |-> fs, out |-> <<Out("error", text)>>, ok |-> FALSE]
  IN IF filepath = ""
     THEN failed("Please provide a file path. Usage: /import <filepath>")
     ELSE IF filepath \notin DOMAIN fs.files
     THEN failed("File not found: " \o filepath)
     ELSE IF fs.files[filepath].kind = "invalid" THEN failed("Invalid JSON file.")
     ELSE IF fs.files[filepath].kind # "list"
     THEN failed("Invalid file format. Expected a list of messages.")
     ELSE LET valid_messages == SelectSeq(JsonLoadList(fs.files[filepath].data), ValidEntry)
              saved == save_user_chat(fs, uid, messages \o valid_messages)
          IN IF Len(valid_messages) = 0
             THEN failed("No valid messages found in file.")
             ELSE [messages |-> messages \o valid_messages, fs |-> saved.fs,
                   out |-> saved.out
                           \o <<Out("success", "Imported " \o ToString(Len(valid_messages))
                                                 \o " message(s)")>>,
                   ok |-> TRUE]

\* handle_users: the files afterwards and what is printed
handle_users(fs) ==
  LET u == get_all_users(fs)
      r == read_all_chats(u.fs)
  IN IF Len(u.users) = 0
     THEN [fs |-> u.fs, out |-> u.out \o <<Out("info", "No users found.")>>]
     ELSE [fs |-> r.fs,
           out |-> u.out \o <<Out("header", "All Users")>> \o r.out
                   \o [i \in 1..Len(u.users) |->
                         Out("line", ToString(i) \o ". " \o u.users[i] \o " ("
                                       \o ToString(Len(DictGet(r.data, u.users[i], <<>>)))
                                       \o " messages)")]]

\* handle_joke: the jokes random.choice may give
handle_joke ==
  {"Why do programmers prefer dark mode? Because light attracts bugs! #",
   "Why did the programmer quit his job? Because he didn't get arrays. #",
   "How many programmers does it take to change a light bulb? None # it's a hardware problem. #",
   "Why do Java developers wear glasses? Because they can't C#! #",
   "What's a programmer's favorite hangout place? Foo Bar! #",
   "Why did the developer go broke? Because he used up all his cache! #",
   "What do you call a programmer from Finland? Nerdic! ##",
   "Why do Python programmers have low self-esteem? They're constantly comparing themselves to others! #",
   "What's the object-oriented way to become wealthy? Inheritance! #",
   "Why did the variable break up with the constant? She needed some space! #"}

\* str.ljust(width)
Ljust(text, width) ==
  IF Len(text) >= width THEN text ELSE text \o Repeat(" ", width - Len(text))

\* the table /help prints
CliHelp ==
  <<<<"/help", "Show this help message">>, <<"/history", "Show chat history">>,
    <<"/search <query>", "Search messages">>, <<"/clear", "Clear chat history">>,
    <<"/stats", "Show chat statistics">>, <<"/time", "Show current time">>,
    <<"/date", "Show current date">>, <<"/joke", "Tell a random joke">>,
    <<"/export", "Export chat to JSON">>, <<"/import <file>", "Import chat from JSON">>,
    <<"/users", "List all users">>, <<"/switch <user>", "Switch to different user">>,
    <<"/exit", "Exit the chat">>>>

\* one outcome of handle_command: the text returned (Absent for None), the
\* exit flag, the messages and files afterwards, and what was printed
Handled(response, should_exit, messages, fs, out) ==
  [response |-> response, should_exit |-> should_exit, messages |-> messages,
   fs |-> fs, out |-> out]

\* handle_command for a stripped text that starts with "/": its outcomes
handle_command(text, uid, messages, fs, now) ==
  LET parts == SplitFirst(Strip(text))
      cmd == Lower(parts[1])
      arg == IF Len(parts) > 1 THEN parts[2] ELSE ""
      quiet(out) == {Handled(Absent, FALSE, messages, fs, out)}
  IN IF cmd \in {"/exit", "/quit", "/q"} THEN {Handled(Absent, TRUE, messages, fs, <<>>)}
     ELSE IF cmd = "/history" THEN quiet(handle_history(messages))
     ELSE IF cmd = "/search" THEN quiet(handle_search(messages, arg))
     ELSE IF cmd \in {"/clear", "/clearhistory", "/clear_history"}
     THEN LET saved == save_user_chat(fs, uid, <<>>)
          IN {Handled(Absent, FALSE, <<>>, saved.fs,
                      saved.out \o <<Out("success", "Chat history cleared.")>>)}
     ELSE IF cmd = "/stats" THEN quiet(handle_stats(messages, uid))
     ELSE IF cmd = "/export"
     THEN LET e == handle_export(messages, uid, fs, now)
          IN {Handled(Absent, FALSE, messages, e.fs, e.out)}
     ELSE IF cmd = "/import"
     THEN LET i == handle_import(messages, uid, arg, fs)
          IN {Handled(Absent, FALSE, i.messages, i.fs, i.out)}
     ELSE IF cmd = "/users"
     THEN LET u == handle_users(fs)
          IN {Handled(Absent, FALSE, messages, u.fs, u.out)}
     ELSE IF cmd = "/switch"
     THEN IF arg = "" THEN quiet(<<Out("error", "Usage: /switch <user_id>")>>)
          ELSE {Handled("SWITCH:" \o arg, FALSE, messages, fs, <<>>)}
     ELSE IF cmd \in {"/help", "/commands", "/?"}
     THEN quiet(<<Out("header", "Available Commands")>>
                \o [k \in 1..Len(CliHelp) |->
                      Out("line", Ljust(CliHelp[k][1], 20) \o " " \o CliHelp[k][2])])
     ELSE IF cmd = "/time"
     THEN {Handled("# Current time: " \o now.hms, FALSE, messages, fs, <<>>)}
     ELSE IF cmd = "/date"
     THEN {Handled("# Today is " \o now.date, FALSE, messages, fs, <<>>)}
     ELSE IF cmd = "/joke"
     THEN {Handled(j, FALSE, messages, fs, <<>>) : j \in handle_joke}
     ELSE quiet(<<Out("error", "Unknown command: " \o cmd
                                 \o ". Type /help for available commands.")>>)

\* the dictionary main appends
CliMessage(id, who, text, now) == [id |-> id, who |-> who, text |-> text, ts |-> now.ts]

\* the f-string main prints after loading a non-empty history
Loaded(messages) ==
  IF Len(messages) = 0 THEN <<>>
  ELSE <<Out("info", "Loaded " \o ToString(Len(messages)) \o " message(s)")>>

\* the interactive process: state is off, running, exited or crashed; fs holds
\* chats.json, chats.json.bak and the other files by path; out is what the
\* last step printed; input and before are the line it read and the
\* messages held before it; exported is the path and the messages of the
\* last export, found the chats.json the process met when it started;
\* held gives, per user, the messages the process held when it last had that
\* user, expect those of the user it has just come back to
CliProcess(state, uid, messages, fs) ==
  [state |-> state, uid |-> uid, messages |-> messages, fs |-> fs, out |-> <<>>,
   input |-> "", before |-> <<>>, exported |-> [path |-> "", messages |-> <<>>],
   found |-> NoFile, held |-> <<>>, expect |-> [known |-> FALSE, messages |-> <<>>]]

\* main from its first line to the first prompt of the loop; args_user is
\* --user (Absent when not given), typed the answer to the user-id prompt
start_main(c, ctr, args_user, typed) ==
  LET given == args_user # Absent /\ args_user # ""
      answer == Strip(typed)
      uid == IF given THEN args_user
             ELSE IF answer # "" THEN answer
             ELSE SubSeq(Hex(ctr + 1), 1, Min(8, Len(Hex(ctr + 1))))
      l == load_user_chat(c.fs, uid)
      banner == IF given THEN <<Out("info", "Using user ID: " \o uid)>>
                ELSE IF answer # "" THEN <<>>
                ELSE <<Out("success", "Created new user ID: " \o uid)>>
  IN [cli |-> IF l.raised
              THEN [CliProcess("crashed", uid, <<>>, l.fs) EXCEPT
                      !.out = banner \o <<Out("traceback",
                                "AttributeError: 'list' object has no attribute 'get'")>>]
              ELSE [CliProcess("running", uid, l.messages, l.fs) EXCEPT
                      !.out = banner \o l.out \o Loaded(l.messages)],
      ctr |-> IF given \/ answer # "" THEN ctr ELSE ctr + 1]

\* one turn of the loop of main on the line raw: the outcomes [cli, ctr]
main_loop(c, ctr, raw, now) ==
  LET user_input == Strip(raw)
      seen == [c EXCEPT !.input = raw, !.before = c.messages, !.out = <<>>]
  IN IF user_input = "" THEN {[cli |-> seen, ctr |-> ctr]}
     ELSE IF StartsWith(user_input, "/")
     THEN {[cli |->
              IF h.should_exit
              THEN [seen EXCEPT !.state = "exited",
                                !.out = h.out \o <<Out("line", "Goodbye! Thanks for chatting! #")>>]
              ELSE IF h.response \in {Absent, ""}
              THEN [seen EXCEPT !.messages = h.messages, !.fs = h.fs, !.out = h.out]
              ELSE IF StartsWith(h.response, "SWITCH:")
              THEN LET new_uid == SubSeq(h.response, 8, Len(h.response))
                       saved == save_user_chat(h.fs, c.uid, h.messages)
                       l == load_user_chat(saved.fs, new_uid)
                   IN [seen EXCEPT !.uid = new_uid, !.messages = l.messages, !.fs = l.fs,
                                   !.out = h.out \o saved.out \o l.out
                                           \o <<Out("success", "Switched to user: " \o new_uid)>>
                                           \o Loaded(l.messages)]
              ELSE [seen EXCEPT !.messages = h.messages, !.fs = h.fs,
                                !.out = h.out \o <<Out("bot", h.response)>>],
            ctr |-> ctr] : h \in handle_command(user_input, c.uid, c.messages, c.fs, now)}
     ELSE {LET messages == c.messages
                             \o <<CliMessage(Hex(ctr + 1), "me", user_input, now),
                                   CliMessage(Hex(ctr + 2), "bot", reply, now)>>
               saved == save_user_chat(c.fs, c.uid, messages)
           IN [cli |-> [seen EXCEPT !.messages = messages, !.fs = saved.fs,
                                    !.out = saved.out \o <<Out("bot", reply)>>],
               ctr |-> ctr + 2] : reply \in rule_based_reply(user_input)}

(***************************************************************************)
(* State.                                                                  *)
(***************************************************************************)
VARIABLES
  conversations,  \* the conversations dictionary
  uuid_ctr,       \* number of uuids drawn
  client,         \* whether the OpenAI client was created at startup
  nreq,           \* number of requests handled
  last,           \* the last request handled and its response
  appended,       \* per conversation id, the messages saved since its last clear
  probe,          \* a text and what detect_intent / validate_message gave for it
  threads,        \* per request thread, where it stands in its request
  list_ids,       \* per conversation id, which list object the dictionary holds
  cli             \* the interactive variant: its user, messages, files and output

vars ==
  <<conversations, uuid_ctr, client, nreq, last, appended, probe, threads, list_ids, cli>>

server_vars == <<conversations, uuid_ctr, client, nreq, last, appended>>

thread_vars == <<threads, list_ids>>

\* bounds
MaxRequests == 2

MaxFragments == 3

Sessions == {"s1", "s2"}

\* a message one character over the limit
LongInput == Repeat("ab", MAX_MESSAGE_LENGTH \div 2) \o "c"

\* request bodies of the server specification
Inputs ==
  {"  ", "aaaaaa", LongInput,
   "/stats", "/clear",
   "hello ", "help", "what time is it",
   "baaaaa"}

\* request bodies of a second session that runs beside the first
OtherInputs == {"aaaaaa", "/clear", "help", "baaaaa"}

\* one request body for every command, known or not
CommandInputs ==
  {"/time", "/date", "/HELP", "/commands", "/joke", "/history", "/whoami",
   "/clear", "/Clear_History", "/stats", "/export", "/search", "/search  Hi",
   "/search zzz", "/bogus arg", "/ x"}

\* the history after n/2 exchanges "hi" -> second greeting
Prefill(n) ==
  LET now == CHOOSE c \in Clock : TRUE
  IN [k \in 1..n |->
        IF k % 2 = 1 THEN NewMessage(Uuid(k), "user", "hi", now)
        ELSE NewMessage(Uuid(k), "bot", IntentRule("greeting").responses[2].text, now)]

PrefillSizes == {0, CONTEXT_WINDOW, MAX_HISTORY_LENGTH - 2}

\* the body of GET /health
health_check(conv, client_created, now) ==
  [status |-> "healthy", timestamp |-> now.iso, ai_available |-> client_created,
   active_conversations |-> Cardinality(DOMAIN conv)]

NoHealth ==
  [status |-> Absent, timestamp |-> Absent, ai_available |-> FALSE,
   active_conversations |-> 0]

NoRequest ==
  [op |-> "none", cid |-> "", raw |-> "", before |-> <<>>,
   response |-> Response(0, Absent, Absent, Absent, Absent, Absent, Absent),
   reached |-> {}, request |-> <<>>, handled |-> <<>>, health |-> NoHealth,
   result |-> NoResult]

Threads == {"t1", "t2"}

\* a thread that has not taken its request yet
IdleThread == [pc |-> "idle", cid |-> "", todo |-> <<>>, tmp |-> <<>>, ref |-> 0]

\* no file on disk
NoFiles == [chats |-> NoFile, backup |-> NoFile, files |-> <<>>]

\* the interactive variant not started, nothing on disk
NoCli == CliProcess("off", "", <<>>, NoFiles)

CliUsers == {"u1"}

\* what an earlier run left for user u1 after n/2 exchanges "hi" -> second
\* greeting
CliPrefill(n) ==
  LET now == CHOOSE c \in Clock : TRUE
  IN [k \in 1..n |->
        IF k % 2 = 1 THEN CliMessage("old" \o ToString(k), "me", "hi", now)
        ELSE CliMessage("old" \o ToString(k), "bot", "Hi there! What can I do for you?", now)]

\* the interactive variant not started, chats.json left by an earlier run
CliOff(n) ==
  CliProcess("off", "", <<>>,
             [NoFiles EXCEPT !.chats =
                IF n = 0 THEN NoFile
                ELSE write_all_chats(NoFiles, <<<<"u1", CliPrefill(n)>>>>).chats])

\* before and after are the store a call of detect_intent found and left,
\* prev is the call of detect_intent before the last one
NoProbe ==
  [input |-> "", done |-> {}, intent |-> <<"", 0>>,
   valid |-> [ok |-> FALSE, error |-> ""], before |-> <<>>, after |-> <<>>,
   prev |-> [input |-> "", intent |-> <<"", 0>>, before |-> <<>>]]

\* startup (n = 0), or the state after "s1" made n/2 greeting exchanges
InitServer(sizes, clients) ==
  /\ \E n \in sizes :
       /\ conversations = (IF n = 0 THEN <<>> ELSE ("s1" :> Prefill(n)))
       /\ uuid_ctr = n
       /\ appended = [c \in Sessions |-> IF c = "s1" THEN Prefill(n) ELSE <<>>]
  /\ client \in clients
  /\ nreq = 0
  /\ last = NoRequest
  /\ probe = NoProbe
  /\ threads = [t \in Threads |-> IdleThread]
  /\ list_ids = [c \in Sessions |-> 0]

InitWith(sizes, clients) == InitServer(sizes, clients) /\ cli = NoCli

Init == InitWith(PrefillSizes, BOOLEAN)

\* POST /get_response
GetResponse(cid, raw) ==
  /\ nreq < MaxRequests
  /\ \E now \in Clock :
       \E o \in get_response(conversations, uuid_ctr, client, cid, raw, now) :
         /\ conversations' = o.conv
         /\ uuid_ctr' = o.ctr
         /\ last' = [op |-> "get_response", cid |-> cid, raw |-> raw,
                     before |-> conversations, response |-> o.response,
                     reached |-> o.reached, request |-> o.request,
                     handled |-> o.handled, health |-> NoHealth,
                     result |-> o.result]
         /\ appended' = [appended EXCEPT ![cid] =
                           (IF Get(o.handled, cid) = <<>> THEN <<>> ELSE @) \o o.saved]
  /\ nreq' = nreq + 1
  /\ UNCHANGED <<client, probe, thread_vars, cli>>

\* POST /clear_history
ClearHistoryRoute(cid) ==
  /\ nreq < MaxRequests
  /\ LET c == clear_conversation_history(conversations, cid)
     IN /\ conversations' = c.conv
        /\ last' = [op |-> "clear_history", cid |-> cid, raw |-> "",
                    before |-> conversations,
                    response |-> Response(200, Absent, c.result.reply, Absent,
                                          Absent, Absent, Absent),
                    reached |-> {"clear_conversation_history"}, request |-> <<>>,
                    handled |-> c.conv, health |-> NoHealth, result |-> c.result]
        /\ appended' = [appended EXCEPT ![cid] = <<>>]
  /\ nreq' = nreq + 1
  /\ UNCHANGED <<uuid_ctr, client, probe, thread_vars, cli>>

\* GET /health
HealthCheck ==
  /\ nreq < MaxRequests
  /\ \E now \in Clock :
       last' = [NoRequest EXCEPT !.op = "health", !.before = conversations,
                                 !.handled = conversations,
                                 !.response.status = 200,
                                 !.health = health_check(conversations, client, now)]
  /\ nreq' = nreq + 1
  /\ UNCHANGED <<conversations, uuid_ctr, client, appended, probe, thread_vars, cli>>

Next ==
  \/ \E raw \in Inputs : GetResponse("s1", raw)
  \/ \E raw \in OtherInputs : GetResponse("s2", raw)
  \/ \E cid \in Sessions : ClearHistoryRoute(cid)
  \/ HealthCheck

Spec == Init /\ [][Next]_vars

\* the server answering commands only, for one session
NextCommands == \E raw \in CommandInputs : GetResponse("s1", raw)

InitCommands == InitWith({0, MAX_HISTORY_LENGTH - 2}, {TRUE})

SpecCommands == InitCommands /\ [][NextCommands]_vars

\* the server answering queries, clears and health checks for two sessions
QueryInputs ==
  {"/history", "/stats", "/search hi", "/export", "/whoami", "/clear", "help", "  "}

InitSessions == InitWith({0, CONTEXT_WINDOW}, {FALSE})

NextSessions ==
  \/ \E cid \in Sessions : \E raw \in QueryInputs : GetResponse(cid, raw)
  \/ \E cid \in Sessions : ClearHistoryRoute(cid)
  \/ HealthCheck

SpecSessions == InitSessions /\ [][NextSessions]_vars

(***************************************************************************)
(* Two requests served at once, each by a thread of its own (app.run       *)
(* serves threaded).  A thread runs get_response up to its first           *)
(* save_message in one step; each save_message then runs statement by      *)
(* statement, and the other thread may run between any two of them.        *)
(* list_ids[cid] changes whenever conversations[cid] is bound to a new     *)
(* list object, so a thread can tell the list it loaded from the one the   *)
(* dictionary holds now.                                                   *)
(***************************************************************************)
ThreadInputs == {"help", "/whoami", "aaaaaa"}

ThreadPrefillSizes == {0, MAX_HISTORY_LENGTH}

InitThreads == InitWith(ThreadPrefillSizes, {FALSE})

\* the role and text of each message get_response is about to save
Pending(saved) ==
  [k \in 1..Len(saved) |-> [role |-> saved[k].role, message |-> saved[k].message]]

\* get_response from validation to the reply being known
BeginRequest(t, cid, raw) ==
  /\ threads[t].pc = "idle"
  /\ \E now \in Clock :
       \E o \in get_response(conversations, uuid_ctr, client, cid, raw, now) :
         /\ conversations' = o.handled
         /\ list_ids' = IF o.handled = conversations THEN list_ids
                        ELSE [list_ids EXCEPT ![cid] = @ + 1]
         /\ appended' = IF o.handled = conversations THEN appended
                        ELSE [appended EXCEPT ![cid] = <<>>]
         /\ threads' = [threads EXCEPT ![t] =
                          [@ EXCEPT !.cid = cid, !.todo = Pending(o.saved),
                                    !.pc = IF o.saved = <<>> THEN "done"
                                           ELSE "check_key"]]
  /\ nreq' = nreq + 1
  /\ UNCHANGED <<uuid_ctr, client, last, probe, cli>>

\* if conversation_id not in conversations:
CheckKey(t) ==
  /\ threads[t].pc = "check_key"
  /\ threads' = [threads EXCEPT ![t].pc =
                   IF threads[t].cid \in DOMAIN conversations THEN "check_len"
                   ELSE "init_key"]
  /\ UNCHANGED <<server_vars, probe, list_ids, cli>>

\* conversations[conversation_id] = []
InitKey(t) ==
  /\ threads[t].pc = "init_key"
  /\ conversations' = (threads[t].cid :> <<>>) @@ conversations
  /\ list_ids' = [list_ids EXCEPT ![threads[t].cid] = @ + 1]
  /\ threads' = [threads EXCEPT ![t].pc = "check_len"]
  /\ UNCHANGED <<uuid_ctr, client, nreq, last, appended, probe, cli>>

\* if len(conversations[conversation_id]) >= MAX_HISTORY_LENGTH:
CheckLen(t) ==
  /\ threads[t].pc = "check_len"
  /\ threads' = [threads EXCEPT ![t].pc =
                   IF Len(conversations[threads[t].cid]) >= MAX_HISTORY_LENGTH
                   THEN "slice" ELSE "load"]
  /\ UNCHANGED <<server_vars, probe, list_ids, cli>>

\* conversations[conversation_id][-MAX_HISTORY_LENGTH+1:], a new list
SliceList(t) ==
  /\ threads[t].pc = "slice"
  /\ threads' = [threads EXCEPT ![t] =
                   [@ EXCEPT !.tmp = SliceLast(conversations[threads[t].cid],
                                               MAX_HISTORY_LENGTH - 1),
                             !.pc = "store"]]
  /\ UNCHANGED <<server_vars, probe, list_ids, cli>>

\* conversations[conversation_id] = the new list
StoreList(t) ==
  /\ threads[t].pc = "store"
  /\ conversations' = [conversations EXCEPT ![threads[t].cid] = threads[t].tmp]
  /\ list_ids' = [list_ids EXCEPT ![threads[t].cid] = @ + 1]
  /\ threads' = [threads EXCEPT ![t] = [@ EXCEPT !.tmp = <<>>, !.pc = "load"]]
  /\ UNCHANGED <<uuid_ctr, client, nreq, last, appended, probe, cli>>

\* conversations[conversation_id].append: the list object is looked up,
\* then the argument is built (uuid4, now, strftime are calls)
LoadList(t) ==
  /\ threads[t].pc = "load"
  /\ threads' = [threads EXCEPT ![t] =
                   [@ EXCEPT !.ref = list_ids[threads[t].cid], !.pc = "append"]]
  /\ UNCHANGED <<server_vars, probe, list_ids, cli>>

\* the append itself, on the list object looked up: a list the dictionary
\* no longer holds takes the message out of sight
AppendMessage(t) ==
  /\ threads[t].pc = "append"
  /\ \E now \in Clock :
       LET th == threads[t]
           msg == NewMessage(Uuid(uuid_ctr + 1), Head(th.todo).role,
                             Head(th.todo).message, now)
       IN /\ conversations' = IF th.ref = list_ids[th.cid]
                               THEN [conversations EXCEPT ![th.cid] = Append(@, msg)]
                               ELSE conversations
          /\ appended' = [appended EXCEPT ![th.cid] = Append(@, msg)]
          /\ threads' = [threads EXCEPT ![t] =
                           [@ EXCEPT !.todo = Tail(th.todo),
                                     !.pc = IF Len(th.todo) = 1 THEN "done"
                                            ELSE "check_key"]]
  /\ uuid_ctr' = uuid_ctr + 1
  /\ UNCHANGED <<client, nreq, last, probe, list_ids, cli>>

NextThreads ==
  \E t \in Threads :
    \/ \E cid \in Sessions : \E raw \in ThreadInputs : BeginRequest(t, cid, raw)
    \/ CheckKey(t)
    \/ InitKey(t)
    \/ CheckLen(t)
    \/ SliceList(t)
    \/ StoreList(t)
    \/ LoadList(t)
    \/ AppendMessage(t)

SpecThreads == InitThreads /\ [][NextThreads]_vars

(***************************************************************************)
(* The interactive variant run beside the server, both answering search    *)
(* commands.                                                               *)
(***************************************************************************)
\* python cli_chat.py [--user USER]
CliStart(args_user, typed) ==
  /\ cli.state = "off"
  /\ LET o == start_main(cli, uuid_ctr, args_user, typed)
     IN cli' = [o.cli EXCEPT !.found = cli.fs.chats] /\ uuid_ctr' = o.ctr
  /\ UNCHANGED <<conversations, client, nreq, last, appended, probe, thread_vars>>

\* a line typed at the prompt
CliInput(raw) ==
  /\ cli.state = "running"
  /\ nreq < MaxRequests
  /\ \E now \in Clock : \E o \in main_loop(cli, uuid_ctr, raw, now) :
       LET written == SelectSeq(o.cli.out,
                                LAMBDA x : StartsWith(x.text, "Chat exported to: "))
           switched == o.cli.uid # cli.uid
       IN /\ cli' = [o.cli EXCEPT
                      !.exported =
                        IF Len(written) = 0 THEN @
                        ELSE [path |-> SubSeq(written[1].text, 19, Len(written[1].text)),
                              messages |-> cli.messages],
                      !.held = (cli.uid :> IF switched THEN cli.messages ELSE o.cli.messages)
                                 @@ @,
                      !.expect = IF switched /\ o.cli.uid \in DOMAIN cli.held
                                 THEN [known |-> TRUE, messages |-> cli.held[o.cli.uid]]
                                 ELSE [known |-> FALSE, messages |-> <<>>]]
          /\ uuid_ctr' = o.ctr
  /\ nreq' = nreq + 1
  /\ UNCHANGED <<conversations, client, last, appended, probe, thread_vars>>

\* EOFError or KeyboardInterrupt at the prompt
CliEof ==
  /\ cli.state = "running"
  /\ cli' = [cli EXCEPT !.state = "exited", !.input = "", !.before = cli.messages,
                        !.out = <<Out("line", "\nGoodbye! #")>>,
                        !.held = (cli.uid :> cli.messages) @@ @,
                        !.expect = [known |-> FALSE, messages |-> <<>>]]
  /\ UNCHANGED <<server_vars, probe, thread_vars>>

SearchInputs == {"/search", "/search   ", "/search  Hi", "/search zzz"}

CliSearchInputs == {"/search", "/search   ", "/SEARCH  Hi", "/search zzz", "hi there", "  "}

\* more messages than a search shows
SearchPrefill == CONTEXT_WINDOW

CliSearchPrefill == CLI_SEARCH_LIMIT + 2

InitSearch ==
  /\ InitServer({0, SearchPrefill}, {FALSE})
  /\ \E n \in {0, CliSearchPrefill} : cli = CliOff(n)

NextSearch ==
  \/ \E raw \in SearchInputs : GetResponse("s1", raw)
  \/ \E args_user \in CliUsers \cup {Absent} : \E typed \in {"", " u1 "} :
       CliStart(args_user, typed)
  \/ \E raw \in CliSearchInputs : CliInput(raw)
  \/ CliEof

SpecSearch == InitSearch /\ [][NextSearch]_vars

(***************************************************************************)
(* Both variants answering command lines, known and unknown, in any letter *)
(* case.                                                                   *)
(***************************************************************************)
RegistryInputs == {"/HELP", "/Bogus arg", "/ x", "/Whoami", "/Search HI", "/clearhistory"}

CliRegistryInputs ==
  {"/HELP", "/Bogus arg", "/", "/Q", "/Time", "/Switch u2", "/ClearHistory", "/whoami"}

InitRegistry ==
  /\ InitServer({0, CONTEXT_WINDOW}, {FALSE})
  /\ \E n \in {0, 4} : cli = CliOff(n)

NextRegistry ==
  \/ \E raw \in RegistryInputs : GetResponse("s1", raw)
  \/ \E args_user \in CliUsers : CliStart(args_user, "")
  \/ \E raw \in CliRegistryInputs : CliInput(raw)
  \/ CliEof

SpecRegistry == InitRegistry /\ [][NextRegistry]_vars

(***************************************************************************)
(* Both variants showing histories longer than their limit, with texts     *)
(* longer than a line of the server's view.                                *)
(***************************************************************************)
\* a text of 120 characters that no rule of either variant knows
LongText == Repeat("ab", 60)

HistoryInputs == {"/history", "/export", LongText}

CliHistoryInputs == {"/history", "/History x", LongText}

InitHistory ==
  /\ InitServer({0, HISTORY_LIMIT + 2}, {FALSE})
  /\ \E n \in {0, CLI_HISTORY_LIMIT + 2} : cli = CliOff(n)

NextHistory ==
  \/ \E raw \in HistoryInputs : GetResponse("s1", raw)
  \/ \E args_user \in CliUsers : CliStart(args_user, "")
  \/ \E raw \in CliHistoryInputs : CliInput(raw)
  \/ CliEof

SpecHistory == InitHistory /\ [][NextHistory]_vars

(***************************************************************************)
(* The interactive variant and its files: chats.json absent, left by an    *)
(* earlier run or corrupt, exports written and files imported.             *)
(***************************************************************************)
\* a text that json.dump has to escape
QuotedText == "say \"hi\" \\n"

\* what an earlier run left for user u1 after the exchange QuotedText ->
\* first greeting
FilesPrefill ==
  LET now == CHOOSE c \in Clock : TRUE
  IN <<CliMessage("old1", "me", QuotedText, now),
       CliMessage("old2", "bot", "Hello! How can I help you today?", now)>>

\* files written by other programs: a list with one message among other
\* entries, bytes that are no JSON, an object, a list without any message
ForeignFiles ==
  ("in.json" :> JsonFile("list", <<[text |-> "\"from \\\"elsewhere\\\"\""],
                                   [scalar |-> "42"], [who |-> "\"me\""]>>))
    @@ ("bad.json" :> CorruptFile)
    @@ ("obj.json" :> JsonFile("object", <<>>))
    @@ ("none.json" :> JsonFile("list", <<[scalar |-> "42"]>>))

\* the path /export writes for user u1
ExportedFile == ExportPath("u1", CHOOSE c \in Clock : TRUE)

CliFileInputs ==
  {"/export", "/import " \o ExportedFile, "/import in.json", "/import",
   "/import missing.json", "/import bad.json", "/import obj.json",
   "/import none.json", "/clear", "/users", QuotedText}

InitFiles ==
  /\ InitServer({0}, {FALSE})
  /\ \E chats \in {NoFile, CorruptFile, UndecodableFile, JsonFile("list", <<>>),
                    write_all_chats(NoFiles, <<<<"u1", FilesPrefill>>>>).chats,
                    CliOff(MAX_HISTORY_LENGTH).fs.chats} :
       cli = CliProcess("off", "", <<>>,
                        [chats |-> chats, backup |-> NoFile, files |-> ForeignFiles])

NextFiles ==
  \/ \E u \in CliUsers : CliStart(u, "")
  \/ \E raw \in CliFileInputs : CliInput(raw)
  \/ CliEof

SpecFiles == InitFiles /\ [][NextFiles]_vars

(***************************************************************************)
(* The server answering commands, the handler of a command either          *)
(* returning or raising.                                                   *)
(***************************************************************************)
\* POST /get_response with a command whose handler raises
GetResponseFailing(cid, raw) ==
  /\ nreq < MaxRequests
  /\ validate_message(Strip(raw)).ok /\ CallsHandler(Strip(raw))
  /\ \E now \in Clock :
       \E o \in get_response_failing(conversations, uuid_ctr, client, cid, raw, now) :
         /\ conversations' = o.conv
         /\ uuid_ctr' = o.ctr
         /\ last' = [op |-> "get_response", cid |-> cid, raw |-> raw,
                     before |-> conversations, response |-> o.response,
                     reached |-> o.reached, request |-> o.request,
                     handled |-> o.handled, health |-> NoHealth,
                     result |-> o.result]
         /\ appended' = [appended EXCEPT ![cid] =
                           (IF Get(o.handled, cid) = <<>> THEN <<>> ELSE @) \o o.saved]
  /\ nreq' = nreq + 1
  /\ UNCHANGED <<client, probe, thread_vars, cli>>

FaultInputs ==
  {"/search hi", "/search", "/stats", "/clear", "/export", "/history", "/time",
   "/bogus", "hello "}

InitFaults == InitWith({0, CONTEXT_WINDOW}, {FALSE})

NextFaults ==
  \/ \E raw \in FaultInputs : GetResponse("s1", raw)
  \/ \E raw \in FaultInputs : GetResponseFailing("s1", raw)

SpecFaults == InitFaults /\ [][NextFaults]_vars

(***************************************************************************)
(* detect_intent called between the requests of a session.                 *)
(***************************************************************************)
\* a call that answers by the history of the session
CallDetectIntent_by_history(text) ==
  /\ UNCHANGED <<server_vars, thread_vars, cli>>
  /\ probe' = [probe EXCEPT
                 !.input = text,
                 !.intent = IF Get(conversations, "s1") = <<>> THEN detect_intent(text)
                            ELSE <<"unknown", 0>>,
                 !.done = {"detect_intent"},
                 !.before = conversations, !.after = conversations',
                 !.prev = [input |-> probe.input, intent |-> probe.intent,
                           before |-> probe.before]]

\* detect_intent(text), called at any moment
CallDetectIntent(text) ==
  /\ UNCHANGED <<server_vars, thread_vars, cli>>
  /\ probe' = [probe EXCEPT
                 !.input = text, !.intent = detect_intent(text),
                 !.done = {"detect_intent"},
                 !.before = conversations, !.after = conversations',
                 !.prev = [input |-> probe.input, intent |-> probe.intent,
                           before |-> probe.before]]

IntentInputs == {"What time is it", "zzz"}

InitIntent == InitWith({0, CONTEXT_WINDOW}, {FALSE})

NextIntent ==
  \/ \E raw \in IntentInputs : GetResponse("s1", raw)
  \/ \E text \in IntentInputs : CallDetectIntent(text)

SpecIntent == InitIntent /\ [][NextIntent]_vars

(***************************************************************************)
(* The interactive variant and chats.json: exchanges, clears, imports,     *)
(* switches between two users, and the program run again after it ended.   *)
(***************************************************************************)
\* python cli_chat.py [--user USER] once more, on the files the last run left
CliRestart(args_user, typed) ==
  /\ cli.state = "exited"
  /\ LET o == start_main(cli, uuid_ctr, args_user, typed)
     IN /\ cli' = [o.cli EXCEPT
                     !.found = cli.fs.chats, !.held = cli.held,
                     !.expect = IF o.cli.uid \in DOMAIN cli.held
                                THEN [known |-> TRUE, messages |-> cli.held[o.cli.uid]]
                                ELSE [known |-> FALSE, messages |-> <<>>]]
        /\ uuid_ctr' = o.ctr
  /\ UNCHANGED <<conversations, client, nreq, last, appended, probe, thread_vars>>

StoreUsers == {"u1", "u2"}

StoreInputs ==
  {"help", "/clear", "/import in.json", "/import bad.json", "/switch u2",
   "/switch u1", "/exit"}

InitStore ==
  /\ InitServer({0}, {FALSE})
  /\ \E chats \in {NoFile, CorruptFile, UndecodableFile,
                    write_all_chats(NoFiles, <<<<"u1", FilesPrefill>>,
                                              <<"u2", CliPrefill(2)>>>>).chats} :
       cli = CliProcess("off", "", <<>>,
                        [chats |-> chats, backup |-> NoFile, files |-> ForeignFiles])

NextStore ==
  \/ \E u \in StoreUsers : CliStart(u, "")
  \/ \E raw \in StoreInputs : CliInput(raw)
  \/ CliEof
  \/ \E u \in StoreUsers : CliRestart(u, "")

SpecStore == InitStore /\ [][NextStore]_vars

(***************************************************************************)
(* detect_intent and validate_message applied to one text.                 *)
(***************************************************************************)
ProbeFragments == {"hi", "thx", "help", "time", "joke", " ", "x", "aaaaa"}

RECURSIVE Concats(_)
\* the texts made of at most n fragments
Concats(n) ==
  IF n = 0 THEN {""}
  ELSE LET shorter == Concats(n - 1)
       IN shorter \cup {a \o f : a \in shorter, f \in ProbeFragments}

\* texts at the length limit and one character over it
BoundaryInputs ==
  {Repeat("ab", MAX_MESSAGE_LENGTH \div 2), LongInput,
   Repeat("a", MAX_MESSAGE_LENGTH), Repeat("a", MAX_MESSAGE_LENGTH + 1),
   Repeat(" ", MAX_MESSAGE_LENGTH + 1)}

ProbeInputs == Concats(MaxFragments) \cup BoundaryInputs

InitPure ==
  /\ conversations = <<>>
  /\ uuid_ctr = 0
  /\ appended = [c \in Sessions |-> <<>>]
  /\ client = FALSE
  /\ nreq = 0
  /\ last = NoRequest
  /\ probe \in {[NoProbe EXCEPT !.input = t] : t \in ProbeInputs}
  /\ threads = [t \in Threads |-> IdleThread]
  /\ list_ids = [c \in Sessions |-> 0]
  /\ cli = NoCli

DetectIntent ==
  /\ "detect_intent" \notin probe.done
  /\ probe' = [probe EXCEPT !.intent = detect_intent(probe.input),
                            !.done = @ \cup {"detect_intent"}]
  /\ UNCHANGED <<server_vars, thread_vars, cli>>

ValidateMessage ==
  /\ "validate_message" \notin probe.done
  /\ probe' = [probe EXCEPT !.valid = validate_message(probe.input),
                            !.done = @ \cup {"validate_message"}]
  /\ UNCHANGED <<server_vars, thread_vars, cli>>

NextPure == DetectIntent \/ ValidateMessage

SpecPure == InitPure /\ [][NextPure]_vars

(***************************************************************************)
(* Properties.  They read the last request handled (last), the store       *)
(* before it (last.before) and the store after it (conversations).         *)
(***************************************************************************)
\* the text get_response works on
UserMessage == Strip(last.raw)

\* the history of the session of the last request, before and after it
HistoryBefore == Get(last.before, last.cid)

HistoryAfter == Get(conversations, last.cid)

\* the last request was a get_response whose input passed validation
ValidRequest == last.op = "get_response" /\ validate_message(UserMessage).ok

CommandRequest == ValidRequest /\ StartsWith(UserMessage, "/")

ChatRequest == ValidRequest /\ ~StartsWith(UserMessage, "/")

\* the last k elements of seq (k <= Len(seq))
LastK(seq, k) == SubSeq(seq, Len(seq) - k + 1, Len(seq))

IsSuffixOf(suffix, seq) ==
  Len(suffix) <= Len(seq) /\ LastK(seq, Len(suffix)) = suffix

\* after is base with exactly two messages appended under the cap: the user
\* message with this text, then the bot message with this text; what precedes
\* them are the most recent messages of base, unchanged
ExchangeAppended(base, after, user_text, bot_text) ==
  /\ Len(after) = Min(Len(base) + 2, MAX_HISTORY_LENGTH)
  /\ after[Len(after) - 1].role = "user"
  /\ after[Len(after) - 1].message = user_text
  /\ after[Len(after)].role = "bot"
  /\ after[Len(after)].message = bot_text
  /\ IsSuffixOf(SubSeq(after, 1, Len(after) - 2), base)
  /\ \A k \in 1..Len(base) :
       base[k].id \notin {after[Len(after) - 1].id, after[Len(after)].id}
  /\ after[Len(after) - 1].id # after[Len(after)].id

\* C1: once more than MAX_HISTORY_LENGTH messages were saved for a session
\* with no clear in between, the session holds exactly the MAX_HISTORY_LENGTH
\* most recently saved messages, in the order they were saved.
C1_CapKeepsMostRecent ==
  \A cid \in Sessions :
    Len(appended[cid]) > MAX_HISTORY_LENGTH =>
      /\ Len(Get(conversations, cid)) = MAX_HISTORY_LENGTH
      /\ Get(conversations, cid) = LastK(appended[cid], MAX_HISTORY_LENGTH)

C1_Witness ==
  /\ last.op = "get_response"
  /\ Len(appended[last.cid]) > MAX_HISTORY_LENGTH
  /\ Len(HistoryBefore) = MAX_HISTORY_LENGTH

\* C2: a get_response whose input fails validation answers 400 with the
\* validation message and leaves the whole store as it was.
C2_InvalidInputNotAppended ==
  (last.op = "get_response" /\ ~validate_message(UserMessage).ok) =>
    /\ last.response.status = 400
    /\ last.response.error = validate_message(UserMessage).error
    /\ last.response.reply = Absent
    /\ conversations = last.before

C2_Witness ==
  /\ last.op = "get_response"
  /\ last.response.error = "Message appears to be spam."
  /\ Len(HistoryBefore) > 0

\* C3: a valid input that starts with "/" appends exactly two messages, the
\* user message with the command text as received and the bot message with
\* the command's reply, and the response carries that reply and its type,
\* whatever the command and whatever the type of its result.
C3_CommandExchangeAppended ==
  CommandRequest =>
    \E now \in Clock :
      \E c \in handle_local_command(last.before, last.cid, UserMessage, now) :
        /\ last.response.status = 200
        /\ last.response.reply = c.result.reply
        /\ last.response.type = c.result.type
        /\ last.response.type \in {"info", "success", "error"}
        /\ ExchangeAppended(Get(c.conv, last.cid), HistoryAfter, UserMessage,
                            c.result.reply)

C3_Witness ==
  /\ CommandRequest
  /\ last.response.type = "error"
  /\ UserMessage = "/bogus arg"
  /\ Len(HistoryBefore) > 0

\* C4: a valid input that starts with "/" is answered by the command router
\* alone: neither detect_intent nor ask_openai runs and the response has no
\* source and no intent, also when the text matches an intent pattern;
\* "/stats" on an empty session gives the informational no-statistics reply.
C4_CommandsBypassIntentAndAI ==
  CommandRequest =>
    /\ last.reached = {"handle_local_command"}
    /\ last.request = <<>>
    /\ last.response.source = Absent
    /\ last.response.intent = Absent
    /\ (Lower(UserMessage) = "/stats" /\ HistoryBefore = <<>>) =>
         /\ last.response.status = 200
         /\ last.response.type = "info"
         /\ last.response.reply = "# No statistics available yet."

C4_Witness ==
  /\ CommandRequest
  /\ detect_intent(UserMessage)[1] # "unknown"
  /\ last.response.type = "info"

\* the texts the candidates of a rule can resolve to
CandidateReplies(name) ==
  LET rule == IntentRule(name)
  IN UNION {Resolve(rule.responses[k], now) :
              k \in 1..Len(rule.responses), now \in Clock}

\* C5: a valid non-command input classified with a label other than unknown
\* and a confidence of at least 0.8 is answered with one of the candidates of
\* that rule, with source "intent" and that label, without the gateway;
\* "hello" is labelled greeting.
C5_HighConfidenceIntentReply ==
  ChatRequest =>
    LET d == detect_intent(UserMessage)
    IN (d[1] # "unknown" /\ d[2] >= 80) =>
         /\ last.response.status = 200
         /\ last.response.source = "intent"
         /\ last.response.intent = d[1]
         /\ last.response.reply \in CandidateReplies(d[1])
         /\ "ask_openai" \notin last.reached
         /\ last.request = <<>>
         /\ (UserMessage = "hello" => last.response.intent = "greeting")

C5_Witness ==
  /\ ChatRequest
  /\ detect_intent(UserMessage) = <<"help", 80>>
  /\ last.response.source = "intent"

\* C6: a valid non-command input on which no intent fires at high confidence
\* goes to ask_openai and is answered 200 with source "ai"; without a client
\* the reply is the fixed unavailable text and no call is made, when the call
\* raises the reply is the fixed trouble text; in every case the exchange is
\* appended, user message then bot message.
C6_GatewayFailureAbsorbed ==
  (ChatRequest /\ LET d == detect_intent(UserMessage)
                  IN ~(d[1] # "unknown" /\ d[2] >= 80)) =>
    /\ last.response.status = 200
    /\ last.response.error = Absent
    /\ last.response.source = "ai"
    /\ "ask_openai" \in last.reached
    /\ ~client => (last.response.reply = AI_UNAVAILABLE /\ last.request = <<>>)
    /\ client => last.request # <<>>
    /\ "client_raised" \in last.reached => last.response.reply = AI_TROUBLE
    /\ ExchangeAppended(HistoryBefore, HistoryAfter, UserMessage, last.response.reply)

C6_Witness ==
  /\ ChatRequest
  /\ "client_raised" \in last.reached
  /\ last.response.source = "ai"

\* C7: a handled non-command input appends exactly two messages, the user
\* message with the input text and the bot message with the reply returned;
\* the response names an intent exactly when its source is "intent".
C7_ChatExchangeAppended ==
  ChatRequest =>
    /\ last.response.status = 200
    /\ last.response.source \in {"intent", "ai"}
    /\ ExchangeAppended(HistoryBefore, HistoryAfter, UserMessage, last.response.reply)
    /\ (last.response.intent # Null) <=> (last.response.source = "intent")
    /\ last.response.intent # Absent

C7_Witness ==
  /\ ChatRequest
  /\ last.response.source = "ai"
  /\ Len(HistoryBefore) = MAX_HISTORY_LENGTH

\* C8: the messages handed to the client are the system instruction, then
\* the last min(CONTEXT_WINDOW, |history|) messages of the history as it was
\* before the exchange, in order, then the current user message once, last.
C8_GatewayContext ==
  "client" \in last.reached =>
    LET h == HistoryBefore
        k == Min(CONTEXT_WINDOW, Len(h))
        req == last.request
    IN /\ Len(req) = k + 2
       /\ req[1] = [role |-> "system", content |-> SYSTEM_PROMPT]
       /\ \A j \in 1..k :
            /\ req[1 + j].content = h[Len(h) - k + j].message
            /\ req[1 + j].role =
                 (IF h[Len(h) - k + j].role = "bot" THEN "assistant" ELSE "user")
       /\ req[k + 2] = [role |-> "user", content |-> UserMessage]

C8_Witness ==
  /\ "client" \in last.reached
  /\ Len(HistoryBefore) > CONTEXT_WINDOW
  /\ Len(last.request) = CONTEXT_WINDOW + 2

\* the rules with a pattern that matches the text as detect_intent reads it
FiringRules(text) ==
  {k \in 1..Len(INTENTS) :
     \E p \in 1..Len(INTENTS[k].patterns) :
       Search(INTENTS[k].patterns[p], Strip(Lower(text)))}

\* C9: detect_intent gives the firing rule of highest confidence, the one
\* registered first among equals, and (unknown, 0.0) when no rule fires.
C9_BestIntentFirstWins ==
  "detect_intent" \in probe.done =>
    LET F == FiringRules(probe.input)
    IN IF F = {} THEN probe.intent = <<"unknown", 0>>
       ELSE \E w \in F :
              /\ probe.intent = <<INTENTS[w].name, INTENTS[w].confidence>>
              /\ \A j \in F :
                   \/ INTENTS[j].confidence < INTENTS[w].confidence
                   \/ (INTENTS[j].confidence = INTENTS[w].confidence /\ w <= j)

C9_Witness ==
  /\ "detect_intent" \in probe.done
  /\ probe.intent[1] = "greeting"
  /\ \E j \in FiringRules(probe.input) :
       INTENTS[j].name = "thanks"

\* some character makes up more than 80% of the text
Dominated(text) ==
  \E c \in {CharAt(text, i) : i \in 1..Len(text)} :
    10 * Count(text, c) > 8 * Len(text)

\* C10: validation rejects as spam every non-blank input within the length
\* limit in which one character makes up more than 80% of the characters,
\* wherever that character stands.
C10_SpamWhateverPosition ==
  ("validate_message" \in probe.done /\ Strip(probe.input) # ""
     /\ Len(probe.input) <= MAX_MESSAGE_LENGTH /\ Dominated(probe.input)) =>
    probe.valid = [ok |-> FALSE, error |-> "Message appears to be spam."]

\* the text is empty or made of whitespace only
Blank(text) == \A i \in 1..Len(text) : IsSpace(CharAt(text, i))

\* C11: validation rejects every empty or whitespace-only input and every
\* input longer than MAX_MESSAGE_LENGTH: a text of MAX_MESSAGE_LENGTH + 1
\* characters is too long, a text of exactly MAX_MESSAGE_LENGTH characters in
\* which no character dominates is accepted.  The checks apply in the order
\* empty, too long, spam, and the error is that of the first one that fails.
C11_ValidationOrderAndLimit ==
  "validate_message" \in probe.done =>
    LET t == probe.input
        v == probe.valid
    IN /\ Blank(t) => v = [ok |-> FALSE, error |-> "Please type a message!"]
       /\ (~Blank(t) /\ Len(t) > MAX_MESSAGE_LENGTH) =>
            v = [ok |-> FALSE,
                 error |-> "Message too long! Maximum 2000 characters."]
       /\ (~Blank(t) /\ Len(t) <= MAX_MESSAGE_LENGTH) =>
            \/ v = [ok |-> TRUE, error |-> "None"]
            \/ /\ v = [ok |-> FALSE, error |-> "Message appears to be spam."]
               /\ Dominated(t)
       /\ (~Blank(t) /\ Len(t) <= MAX_MESSAGE_LENGTH /\ ~Dominated(t)) => v.ok

C11_Witness ==
  /\ "validate_message" \in probe.done
  /\ Len(probe.input) = MAX_MESSAGE_LENGTH
  /\ probe.valid.ok

\* C12: when requests for the same session are processed concurrently, no
\* update is lost and the order of appends is kept: the session holds the
\* most recent messages appended by save_message, in the order they were
\* appended, all of them unless the cap evicted the oldest, and never more
\* than MAX_HISTORY_LENGTH.
C12_ConcurrentAppendsKept ==
  \A cid \in Sessions :
    LET h == Get(conversations, cid)
    IN /\ Len(h) <= MAX_HISTORY_LENGTH
       /\ IsSuffixOf(h, appended[cid])
       /\ Len(h) >= Min(Len(appended[cid]), MAX_HISTORY_LENGTH - 1)

\* C13: a request, command or clear for one session leaves every other
\* session as it was: the same messages, and in the store or not as before.
C13_OtherSessionsUntouched ==
  last.op \in {"get_response", "clear_history"} =>
    \A cid \in Sessions \ {last.cid} :
      /\ (cid \in DOMAIN conversations) <=> (cid \in DOMAIN last.before)
      /\ Get(conversations, cid) = Get(last.before, cid)

C13_Witness ==
  /\ last.op = "clear_history"
  /\ last.cid = "s1"
  /\ HistoryBefore # <<>>
  /\ HistoryAfter = <<>>
  /\ Get(conversations, "s2") # <<>>

\* C14: with requests handled one at a time, every session holds at most
\* MAX_HISTORY_LENGTH messages, and they are a contiguous suffix of the
\* messages appended to it since its last clear, in the order of appending
\* and with the ids, roles, texts and timestamps they were appended with.
C14_HistoryIsSuffixOfAppended ==
  \A cid \in Sessions :
    /\ Len(Get(conversations, cid)) <= MAX_HISTORY_LENGTH
    /\ Len(Get(conversations, cid)) <= Len(appended[cid])
    /\ \A k \in 1..Len(Get(conversations, cid)) :
         Get(conversations, cid)[k] =
           appended[cid][Len(appended[cid]) - Len(Get(conversations, cid)) + k]

C14_Witness ==
  /\ last.op = "get_response"
  /\ Len(HistoryAfter) = MAX_HISTORY_LENGTH
  /\ Len(appended[last.cid]) = MAX_HISTORY_LENGTH + 2
  /\ HistoryAfter[1] = appended[last.cid][3]

\* the last request was the command /clear or /clear_history
ClearCommand == CommandRequest /\ Lower(UserMessage) \in {"/clear", "/clear_history"}

\* C15: clearing a session id never seen before is no error and removes
\* nothing: the route answers 200 and the command answers with type info,
\* both with the nothing-to-clear text, and clear_conversation_history leaves
\* no message under that id.
C15_ClearUnseenSession ==
  /\ (last.op = "clear_history" /\ last.cid \notin DOMAIN last.before) =>
       /\ last.response.status = 200
       /\ last.response.error = Absent
       /\ last.response.reply = "# No history to clear."
       /\ Get(conversations, last.cid) = <<>>
  /\ (ClearCommand /\ last.cid \notin DOMAIN last.before) =>
       /\ last.response.status = 200
       /\ last.response.type = "info"
       /\ last.response.reply = "# No history to clear."
       /\ Get(last.handled, last.cid) = <<>>

C15_Witness ==
  /\ last.op = "clear_history"
  /\ last.cid \notin DOMAIN last.before
  /\ last.response.reply = "# No history to clear."
  /\ last.cid \notin DOMAIN conversations

\* C16: clear empties the session and reports how many messages it held;
\* clearing a session that holds none, whether never seen or already
\* emptied, gives the informational nothing-to-clear result.
C16_ClearReportsCountOrNothing ==
  /\ last.op = "clear_history" =>
       /\ HistoryAfter = <<>>
       /\ last.response.status = 200
       /\ last.response.reply =
            (IF HistoryBefore = <<>> THEN "# No history to clear."
             ELSE "## Cleared " \o ToString(Len(HistoryBefore))
                    \o " message(s) from your history.")
  /\ ClearCommand =>
       /\ Get(last.handled, last.cid) = <<>>
       /\ last.response.reply =
            (IF HistoryBefore = <<>> THEN "# No history to clear."
             ELSE "## Cleared " \o ToString(Len(HistoryBefore))
                    \o " message(s) from your history.")
       /\ last.response.type = (IF HistoryBefore = <<>> THEN "info" ELSE "success")

\* the command of the last request, as handle_local_command reads it
CommandOf(text) == SplitFirst(Strip(Lower(text)))[1]

\* what each query answers for a session that holds no message
EmptyAnswer(command, cid) ==
  CASE command = "/history" -> "# No conversation history yet."
    [] command = "/stats" -> "# No statistics available yet."
    [] command = "/search" -> "# No messages to search."
    [] command = "/export" -> "# No messages to export."
    [] command = "/whoami" ->
         "# Your conversation ID: ^" \o cid \o "^\n# Messages in session: 0"

ReadCommands == {"/history", "/stats", "/search", "/export", "/whoami"}

\* C17: a session key enters the store with the first message appended for
\* it and is never removed: a rejected request adds no key, clear keeps the
\* key with an empty list, and the health report counts the keys, so it
\* never decreases; a query for a session not yet seen answers for an empty
\* session, with type info and no error.
C17_SessionKeysPersist ==
  /\ DOMAIN last.before \subseteq DOMAIN conversations
  /\ ValidRequest => last.cid \in DOMAIN conversations
  /\ (last.op = "get_response" /\ ~ValidRequest) =>
       DOMAIN conversations = DOMAIN last.before
  /\ last.op = "clear_history" =>
       /\ DOMAIN conversations = DOMAIN last.before
       /\ HistoryAfter = <<>>
  /\ last.op = "health" =>
       /\ last.health.active_conversations = Cardinality(DOMAIN conversations)
       /\ last.health.active_conversations >= Cardinality(DOMAIN last.before)
  /\ (CommandRequest /\ last.cid \notin DOMAIN last.before
        /\ CommandOf(UserMessage) \in ReadCommands) =>
       /\ last.response.status = 200
       /\ last.response.type = "info"
       /\ last.response.reply = EmptyAnswer(CommandOf(UserMessage), last.cid)

C17_Witness ==
  /\ last.op = "health"
  /\ last.health.active_conversations = 1
  /\ "s1" \in DOMAIN conversations
  /\ conversations["s1"] = <<>>

\* C18: the handlers of /history, /stats, /search, /export and /whoami
\* leave the store as it was: the same keys and the same messages for every
\* session; so does the health report.
C18_ReadsDoNotMutate ==
  /\ (CommandRequest /\ CommandOf(UserMessage) \in ReadCommands) =>
       last.handled = last.before
  /\ last.op = "health" => conversations = last.before

C18_Witness ==
  /\ CommandRequest
  /\ CommandOf(UserMessage) = "/export"
  /\ Len(HistoryBefore) = CONTEXT_WINDOW
  /\ last.handled = last.before
  /\ Len(HistoryAfter) = CONTEXT_WINDOW + 2

\* text contains q, letter case aside
Matches(text, q) ==
  \E i \in 1..(Len(text) - Len(q) + 1) :
    \A j \in 1..Len(q) : LowerChar(CharAt(text, i + j - 1)) = LowerChar(CharAt(q, j))

\* the argument of a command line, "" when it has none
ArgumentOf(text) ==
  IF Len(SplitFirst(Strip(text))) > 1 THEN SplitFirst(Strip(text))[2] ELSE ""

\* the last request of the server was a /search with this query
ServerSearch == CommandRequest /\ CommandOf(UserMessage) = "/search"

ServerQuery == ArgumentOf(Lower(UserMessage))

\* the last line the interactive variant read was a /search with this query
CliSearch ==
  /\ cli.state = "running"
  /\ StartsWith(Strip(cli.input), "/")
  /\ CommandOf(cli.input) = "/search"

CliQuery == ArgumentOf(cli.input)

\* the line each variant shows for a message found
ServerSearchLine(msg) ==
  "# **[" \o msg.timestamp \o "] " \o (IF msg.role = "user" THEN "You" ELSE "Bot")
    \o ":** " \o (IF Len(msg.message) > 80 THEN SubSeq(msg.message, 1, 77) \o "..."
                   ELSE msg.message)

CliSearchLine(msg) ==
  Out("line", "[" \o msg.ts \o "] " \o (IF msg.who = "me" THEN "You" ELSE "Bot")
                \o ": " \o msg.text)

\* C19: a search with a non-empty query finds the messages whose text
\* contains the query, letter case aside, and shows the last K of them at
\* most (K = 5 for the server, 20 for the interactive variant), oldest
\* first; when no message held before the search contains it, the empty
\* session included, the answer is informational and no error.
C19_SearchShowsLastMatches ==
  /\ (ServerSearch /\ ServerQuery # "") =>
       LET found == SelectSeq(HistoryBefore, LAMBDA m : Matches(m.message, ServerQuery))
           shown == LastK(found, Min(Len(found), 5))
       IN /\ last.response.status = 200
          /\ last.response.type = "info"
          /\ last.response.reply =
               (IF HistoryBefore = <<>> THEN "# No messages to search."
                ELSE IF found = <<>>
                THEN "# No messages found matching \"" \o ServerQuery \o "\""
                ELSE JoinLines(<<"# **Found " \o ToString(Len(found))
                                   \o " message(s) matching \"" \o ServerQuery \o "\":**\n">>
                               \o [k \in 1..Len(shown) |-> ServerSearchLine(shown[k])]))
  /\ (CliSearch /\ CliQuery # "") =>
       LET found == SelectSeq(cli.before, LAMBDA m : Matches(m.text, CliQuery))
           shown == LastK(found, Min(Len(found), 20))
       IN cli.out =
            (IF found = <<>>
             THEN <<Out("info", "No messages found matching '" \o CliQuery \o "'")>>
             ELSE <<Out("header", "Search Results for '" \o CliQuery \o "'"),
                    Out("info", "Found " \o ToString(Len(found)) \o " message(s)")>>
                  \o [k \in 1..Len(shown) |-> CliSearchLine(shown[k])])

C19_Witness ==
  /\ ServerSearch
  /\ ServerQuery = "hi"
  /\ Len(HistoryBefore) > 5
  /\ StartsWith(last.response.reply, "# **Found " \o ToString(Len(HistoryBefore)))
  /\ CliSearch
  /\ CliQuery = "Hi"
  /\ Len(cli.before) > 20
  /\ Len(cli.out) = 22

\* C20: /search with no argument, alone or followed by whitespace only,
\* answers with the usage hint as an error and searches nothing, whatever
\* the session holds.
C20_SearchWithoutQuery ==
  /\ (ServerSearch /\ ServerQuery = "") =>
       /\ last.response.status = 200
       /\ last.response.type = "error"
       /\ last.response.reply = "# Usage: /search <query>\nExample: /search hello"
       /\ last.handled = last.before
  /\ (CliSearch /\ CliQuery = "") =>
       /\ cli.out = <<Out("error", "Please provide a search query. Usage: /search <query>")>>
       /\ cli.messages = cli.before

C20_Witness ==
  /\ ServerSearch
  /\ last.raw = "/search   "
  /\ HistoryBefore # <<>>
  /\ last.response.type = "error"
  /\ CliSearch
  /\ cli.input = "/search   "
  /\ cli.before # <<>>
  /\ cli.out[1].kind = "error"

\* the commands each variant knows, /search included
ServerRegistry ==
  {"/time", "/date", "/help", "/commands", "/joke", "/history", "/whoami", "/clear",
   "/clear_history", "/stats", "/export", "/search"}

CliRegistry ==
  {"/exit", "/quit", "/q", "/history", "/search", "/clear", "/clearhistory",
   "/clear_history", "/stats", "/export", "/import", "/users", "/switch", "/help",
   "/commands", "/?", "/time", "/date", "/joke"}

\* the last line the interactive variant read was a command line
CliCommandLine == StartsWith(Strip(cli.input), "/")

\* C21: a command line whose first token, lower-cased, is no command of the
\* variant is answered with an error that names that token; a command of
\* the variant is recognized in whatever letter case it was typed.
C21_UnknownCommandNamed ==
  /\ CommandRequest =>
       IF CommandOf(UserMessage) \in ServerRegistry
       THEN ~StartsWith(last.response.reply, "# Unknown command")
       ELSE /\ last.response.status = 200
            /\ last.response.type = "error"
            /\ last.response.reply =
                 "# Unknown command: " \o CommandOf(UserMessage)
                   \o "\nType /help for available commands."
  /\ CliCommandLine =>
       IF CommandOf(cli.input) \in CliRegistry
       THEN \A k \in 1..Len(cli.out) : ~StartsWith(cli.out[k].text, "Unknown command")
       ELSE /\ cli.out = <<Out("error", "Unknown command: " \o CommandOf(cli.input)
                                          \o ". Type /help for available commands.")>>
            /\ cli.messages = cli.before
            /\ cli.state = "running"

C21_Witness ==
  /\ CommandRequest
  /\ last.raw = "/Bogus arg"
  /\ last.response.reply = "# Unknown command: /bogus\nType /help for available commands."
  /\ CliCommandLine
  /\ cli.input = "/Bogus arg"
  /\ cli.out[1].text = "Unknown command: /bogus. Type /help for available commands."

\* a text as the history view shows it: cut to 97 characters and "..." when
\* longer than 100
Displayed(text) ==
  IF Len(text) > 100 THEN SubSeq(text, 1, 97) \o "..." ELSE text

\* the plain lines among what the interactive variant printed
CliLines == SelectSeq(cli.out, LAMBDA o : o.kind = "line")

\* C22 for the server: /history shows the last min(10, n) messages, oldest
\* first, each text within the display length.
ServerHistoryView ==
  (CommandRequest /\ CommandOf(UserMessage) = "/history" /\ HistoryBefore # <<>>) =>
    LET shown == LastK(HistoryBefore, Min(Len(HistoryBefore), 10))
    IN last.response.reply =
         JoinLines(<<"# **Recent Messages** (last " \o ToString(Len(shown)) \o "):\n">>
                   \o [k \in 1..Len(shown) |->
                         "# **[" \o shown[k].timestamp \o "] "
                           \o (IF shown[k].role = "user" THEN "You" ELSE "Bot") \o ":** "
                           \o Displayed(shown[k].message)])

\* C22 for the interactive variant: /history shows the last min(50, n)
\* messages, oldest first, each text within the display length.
CliHistoryView ==
  (CliCommandLine /\ CommandOf(cli.input) = "/history" /\ cli.before # <<>>) =>
    LET shown == LastK(cli.before, Min(Len(cli.before), 50))
    IN CliLines =
         [k \in 1..Len(shown) |->
            Out("line", "[" \o shown[k].ts \o "] "
                          \o (IF shown[k].who = "me" THEN "You: " ELSE "Bot: ")
                          \o Displayed(shown[k].text))]

\* C22: the history view returns the last min(N, n) messages of the session
\* in chronological order, and every text it displays is within the maximum
\* display length: a longer text is cut and ends with "...", a shorter one
\* is shown unchanged.
C22_HistoryViewCutsLongTexts == ServerHistoryView /\ CliHistoryView

\* the last request of the server was /export for a session with messages
ServerExport ==
  CommandRequest /\ CommandOf(UserMessage) = "/export" /\ HistoryBefore # <<>>

\* C23: export serializes every message of the session, whole and in
\* order, with message_count the number of messages; the reply carries the
\* first 500 characters of the serialization at most, and the field
\* export_data of the result carries all of it.
C23_ExportIsComplete ==
  ServerExport =>
    LET full == JsonDumps([conversation_id |-> last.cid,
                           export_time |-> (CHOOSE c \in Clock : TRUE).iso,
                           message_count |-> Len(HistoryBefore),
                           messages |-> HistoryBefore])
        head == "# **Conversation Export:**\n\nCopy the JSON below:\n\n^^^json\n"
        foot == "\n...\n^^^\n\n(Full export available via API)"
        reply == last.result.reply
        preview == SubSeq(reply, Len(head) + 1, Len(reply) - Len(foot))
    IN /\ last.result.type = "success"
       /\ last.result.export_data = full
       /\ \A k \in 1..Len(HistoryBefore) :
            Contains(full, "\"message\": \"" \o JsonEscape(HistoryBefore[k].message) \o "\"")
       /\ Contains(full, "\"message_count\": " \o ToString(Len(HistoryBefore)) \o ",")
       /\ StartsWith(reply, head)
       /\ SubSeq(reply, Len(reply) - Len(foot) + 1, Len(reply)) = foot
       /\ Len(preview) = Min(500, Len(full))
       /\ StartsWith(full, preview)
       /\ last.response.reply = reply

C23_Witness ==
  /\ ServerExport
  /\ Len(HistoryBefore) > HISTORY_LIMIT
  /\ \E k \in 1..Len(HistoryBefore) : Len(HistoryBefore[k].message) > 100
  /\ Len(last.result.export_data) > 500
  /\ Len(last.result.reply) < Len(last.result.export_data)


\* the texts of a list of messages, in order
Texts(messages) == [k \in 1..Len(messages) |-> MsgGet(messages[k], "text", "")]

\* the last line typed imported the file of the last export
CliReimported ==
  /\ CliCommandLine /\ CommandOf(cli.input) = "/import"
  /\ cli.exported.path # "" /\ ArgumentOf(cli.input) = cli.exported.path
  /\ \E k \in 1..Len(cli.out) : cli.out[k].kind = "success"

\* C24 as stated: after exporting a session and importing the exported file,
\* the session holds the exported texts, in order, and nothing else.
C24_ImportReproducesSession ==
  CliReimported => Texts(cli.messages) = Texts(cli.exported.messages)

\* C24: importing the file of an export appends the exported messages, same
\* texts in the same order, to what the session held; a session that was
\* empty holds exactly the exported texts afterwards, and chats.json holds
\* the session.
C24_ImportAppendsExport ==
  CliReimported =>
    /\ Texts(cli.messages) = Texts(cli.before) \o Texts(cli.exported.messages)
    /\ cli.messages = cli.before \o cli.exported.messages
    /\ cli.before = <<>> => Texts(cli.messages) = Texts(cli.exported.messages)
    /\ load_user_chat(cli.fs, cli.uid).messages = cli.messages
    /\ cli.out[Len(cli.out)]
         = Out("success", "Imported " \o ToString(Len(cli.exported.messages))
                            \o " message(s)")

C24_Witness ==
  /\ CliReimported
  /\ \E k \in 1..Len(cli.exported.messages) :
       /\ Contains(cli.exported.messages[k].text, "\"")
       /\ Contains(cli.exported.messages[k].text, "\\n")
  /\ Len(cli.messages) > Len(cli.exported.messages)


\* chats.json as the process found it was no store: no JSON, no text, or a
\* JSON value that is no object
CorruptStore == cli.state # "off" /\ cli.found.kind \in {"invalid", "undecodable", "list"}

\* the process has just started
CliStarted == cli.state = "running" /\ cli.input = "" /\ cli.before = <<>>

\* C25: when chats.json is corrupt at the start, the process does not crash,
\* the session starts empty, the corrupt file is kept as chats.json.bak, and
\* from then on chats.json holds the session after every exchange.
C25_CorruptStoreRecovered ==
  CorruptStore =>
    /\ cli.state # "crashed"
    /\ CliStarted => cli.messages = <<>>
    /\ cli.fs.backup = cli.found
    /\ load_user_chat(cli.fs, cli.uid).messages = cli.messages
    /\ cli.messages # cli.before =>
         cli.fs.chats = write_all_chats(NoFiles, <<<<cli.uid, cli.messages>>>>).chats


\* the cap C26 names, the cap of the server
MAX_HISTORY == MAX_HISTORY_LENGTH

\* C26: the session of the interactive variant never holds more than
\* MAX_HISTORY messages.
C26_CliHistoryCapped == Len(cli.messages) <= MAX_HISTORY


\* the handler of the last command raised
HandlerRaised == CommandRequest /\ "raise" \in last.reached

\* C27: every command gets a result of kind info, success or error, and the
\* request is answered with it; when the handler raised, search_conversation
\* or a registered one, the kind is error and the reply carries the text of
\* the exception.
C27_NoFailurePropagates ==
  CommandRequest =>
    /\ last.result.type \in {"info", "success", "error"}
    /\ last.response.status = 200 /\ last.response.reply = last.result.reply
    /\ HandlerRaised =>
         /\ last.result.type = "error"
         /\ Contains(last.result.reply, FailureText)


\* detect_intent was called, and before that on the same text
IntentCalled == "detect_intent" \in probe.done

IntentCalledTwice == IntentCalled /\ probe.prev.intent[1] # "" /\ probe.prev.input = probe.input

C29_HistoryAlternates ==
  /\ \A cid \in DOMAIN conversations :
       LET h == conversations[cid]
           all == appended[cid]
       IN /\ Len(h) % 2 = 0
          /\ \A k \in 1..Len(h) : h[k].role = IF k % 2 = 1 THEN "user" ELSE "bot"
          /\ IsSuffixOf(h, all)
          /\ Len(all) % 2 = 0
          /\ \A k \in 1..Len(all) : all[k].role = IF k % 2 = 1 THEN "user" ELSE "bot"
  /\ (last.op = "get_response" /\ last.response.status = 200) =>
       /\ Len(HistoryAfter) >= 2
       /\ LastK(HistoryAfter, 2)[1].message = UserMessage
       /\ LastK(HistoryAfter, 2)[2].message = last.response.reply

\* an exchange saved on a full history: the oldest exchange is gone
C29_Witness ==
  /\ last.op = "get_response" /\ last.response.status = 200
  /\ Len(HistoryBefore) = MAX_HISTORY_LENGTH
  /\ Len(HistoryAfter) = MAX_HISTORY_LENGTH
  /\ HistoryAfter[1] = HistoryBefore[3]
  /\ HistoryAfter[1].role = "user"


\* C30: after the command /clear or /clear_history the session holds two
\* messages, the command as the user sent it and the reply of the clear,
\* whatever it held before; after the clear route it holds none; after any
\* other answered request it holds at least two.
C30_ClearCommandLeavesExchange ==
  /\ ClearCommand =>
       /\ Len(HistoryAfter) = 2
       /\ HistoryAfter[1].role = "user" /\ HistoryAfter[1].message = UserMessage
       /\ HistoryAfter[2].role = "bot" /\ HistoryAfter[2].message = last.response.reply
       /\ last.response.reply = clear_conversation_history(last.before, last.cid).result.reply
       /\ \A k \in 1..Len(HistoryBefore) :
            HistoryBefore[k].id \notin {HistoryAfter[1].id, HistoryAfter[2].id}
  /\ last.op = "clear_history" => Len(HistoryAfter) = 0
  /\ (last.op = "get_response" /\ last.response.status = 200) => Len(HistoryAfter) >= 2

C30_Witness ==
  /\ ClearCommand
  /\ Len(HistoryBefore) >= MAX_HISTORY_LENGTH - 2
  /\ Len(HistoryAfter) = 2
  /\ HistoryAfter[2].message
       = "## Cleared " \o ToString(Len(HistoryBefore)) \o " message(s) from your history."


\* the entry of chats.json for a user, none counting as empty
StoreEntry(uid) ==
  IF cli.fs.chats.kind = "object"
  THEN DictGet(JsonLoadChats(cli.fs.chats.data), uid, <<>>)
  ELSE <<>>

\* C31: whenever the loop waits for input, the entry of chats.json for the
\* current user is the list of messages in memory; and a user the process
\* comes back to, by /switch or by a new run, has the messages it held when
\* the process left it.
C31_StoreHoldsSession ==
  cli.state = "running" =>
    /\ StoreEntry(cli.uid) = cli.messages
    /\ cli.expect.known => cli.messages = cli.expect.messages

\* back to u1 by /switch after a visit to u2, with the history u1 had
C31_Witness ==
  /\ cli.state = "running" /\ cli.expect.known
  /\ cli.uid = "u1" /\ Strip(cli.input) = "/switch u1"
  /\ "u2" \in DOMAIN cli.held
  /\ Len(cli.messages) > 0

====
